---- MODULE Spec2Model ----
(***************************************************************************)
(* Model of the CA-75 street-connectivity pipeline.                        *)
(*                                                                         *)
(* computemetrics.py is a straight-line script: load the street graph and  *)
(* reduce it to its largest component, load the block-group layer, compute *)
(* node betweenness and mean shortest-path length, join nodes and edges to *)
(* block groups, normalise by area and write bg_metrics.csv.  Each step of *)
(* the script is one action; pc is the position in the script.             *)
(*                                                                         *)
(* Numbers.  Floating-point values are modelled as exact rationals with    *)
(* the two IEEE specials the script can produce (NaN and +inf).            *)
(*                                                                         *)
(* Geometry.  The plane is a strip of NumCells square cells laid side by   *)
(* side; a grid unit is half a cell.  A block-group polygon is a set of    *)
(* cells, a node is a point at an integer grid position 0..2*NumCells (odd *)
(* = inside a cell, even = on a cell border) and an edge is the straight   *)
(* segment between its end nodes (what graph_to_gdfs builds).  Projection  *)
(* to the metric CRS multiplies grid units by MetersPerUnit.               *)
(***************************************************************************)
EXTENDS Integers, Sequences, FiniteSets, TLC

\* ---------------------------------------------------------------- bounds
MaxNodes   == 3   \* nodes of the street graph (graph inputs)
MaxStreets == 3   \* streets (node pairs joined by an edge) of the graph
NumCells   == 2   \* cells of the strip
MaxBG      == 2   \* rows of the block-group layer

\* Edge lengths (metres) the enumerated graphs draw from.
Lengths == {100, 300}

\* ------------------------------------------------------- program constants
KeyLen        == 12        \* .str[-12:].str.zfill(12)
M2PerKm2      == 1000000   \* area / 1_000_000.0
MPerKm        == 1000      \* length / 1000.0
MetersPerUnit == 500       \* scale of the metric CRS per grid unit
P90Num        == 9         \* quantile(0.90) = 9/10
P90Den        == 10

\* ----------------------------------------------------------------- floats
RECURSIVE GCD(_, _)
GCD(a, b) == IF b = 0 THEN a ELSE GCD(b, a % b)

Abs(x) == IF x < 0 THEN -x ELSE x

NaN == [k |-> "nan", n |-> 0, d |-> 1]
Inf == [k |-> "inf", n |-> 0, d |-> 1]

\* The rational n/d (d > 0) in lowest terms.
Num(n, d) ==
    LET g == GCD(Abs(n), d)
    IN  [k |-> "num", n |-> n \div g, d |-> d \div g]

Int2F(i) == Num(i, 1)

IsNum(v) == v.k = "num"
IsNaN(v) == v.k = "nan"

FEq(a, b) == IsNum(a) /\ IsNum(b) /\ a.n * b.d = b.n * a.d
FLt(a, b) == IsNum(a) /\ IsNum(b) /\ a.n * b.d < b.n * a.d
FLe(a, b) == IsNum(a) /\ IsNum(b) /\ a.n * b.d <= b.n * a.d

\* a + b on non-negative floats.
FAdd(a, b) ==
    IF IsNaN(a) \/ IsNaN(b) THEN NaN
    ELSE IF a.k = "inf" \/ b.k = "inf" THEN Inf
    ELSE Num(a.n * b.d + b.n * a.d, a.d * b.d)

\* a - b on finite floats.
FSub(a, b) ==
    IF ~IsNum(a) \/ ~IsNum(b) THEN NaN
    ELSE Num(a.n * b.d - b.n * a.d, a.d * b.d)

\* a * b on non-negative floats.
FMul(a, b) ==
    IF IsNaN(a) \/ IsNaN(b) THEN NaN
    ELSE IF a.k = "inf" \/ b.k = "inf"
         THEN (IF (IsNum(a) /\ a.n = 0) \/ (IsNum(b) /\ b.n = 0) THEN NaN ELSE Inf)
    ELSE Num(a.n * b.n, a.d * b.d)

\* Element-wise Series division of non-negative floats (numpy semantics):
\* no exception; x/0 is inf for x > 0 and NaN for x = 0; NaN propagates.
FDiv(a, b) ==
    IF IsNaN(a) \/ IsNaN(b) THEN NaN
    ELSE IF b.k = "inf" THEN (IF a.k = "inf" THEN NaN ELSE Int2F(0))
    ELSE IF b.n = 0 THEN (IF IsNum(a) /\ a.n = 0 THEN NaN ELSE Inf)
    ELSE IF a.k = "inf" THEN Inf
    ELSE Num(a.n * b.d, a.d * b.n)

\* Python's scalar s / c on a number s and an int c: ZeroDivisionError on c = 0.
ZeroDivisionError == [k |-> "ZeroDivisionError", n |-> 0, d |-> 1]

PyDiv(s, c) == IF c = 0 THEN ZeroDivisionError ELSE Num(s, c)

\* ------------------------------------------------------------ collections
Min(S) == CHOOSE x \in S : \A y \in S : x <= y
Max(S) == CHOOSE x \in S : \A y \in S : x >= y

RECURSIVE SumSet(_, _)
\* Sum of f[x] over x in S (f integer valued).
SumSet(f, S) ==
    IF S = {} THEN 0
    ELSE LET x == CHOOSE y \in S : TRUE IN f[x] + SumSet(f, S \ {x})

RECURSIVE FSum(_)
\* Sum of a sequence of floats.
FSum(s) == IF s = <<>> THEN Int2F(0) ELSE FAdd(Head(s), FSum(Tail(s)))

RECURSIVE SelectNotNaN(_)
SelectNotNaN(s) ==
    IF s = <<>> THEN <<>>
    ELSE IF IsNaN(Head(s)) THEN SelectNotNaN(Tail(s))
    ELSE <<Head(s)>> \o SelectNotNaN(Tail(s))

RECURSIVE SetToSeq(_)
\* The elements of a set of integers in ascending order.
SetToSeq(S) ==
    IF S = {} THEN <<>> ELSE <<Min(S)>> \o SetToSeq(S \ {Min(S)})

\* ------------------------------------------------------------------ graph
\* A graph is [nodes, edges, pos]: edges is a set of <<u, v, length>> (a
\* MultiDiGraph), pos[v] is the grid position of node v.  Nodes iterate in
\* ascending id order (the order of the file).
NullGraph == [nodes |-> {}, edges |-> {}, pos |-> <<>>]

\* G.to_undirected(): adjacency ignoring direction.
to_undirected(G) ==
    [v \in G.nodes |->
        {w \in G.nodes : \E e \in G.edges :
            (e[1] = v /\ e[2] = w) \/ (e[1] = w /\ e[2] = v)}]

RECURSIVE Closure(_, _)
\* Nodes reached from the set S through adjacency adj.
Closure(adj, S) ==
    LET T == S \cup UNION {adj[v] : v \in S}
    IN  IF T = S THEN S ELSE Closure(adj, T)

\* nx.connected_components(UG): the components in order of their first node.
RECURSIVE ComponentsFrom(_, _)
ComponentsFrom(adj, left) ==
    IF left = {} THEN <<>>
    ELSE LET c == Closure(adj, {Min(left)})
         IN  <<c>> \o ComponentsFrom(adj, left \ c)

connected_components(UG) == ComponentsFrom(UG, DOMAIN UG)

\* nx.is_connected(UG) on a graph with at least one node.
is_connected(UG) == Closure(UG, {Min(DOMAIN UG)}) = DOMAIN UG

\* Variant: the first component instead of the largest.
FirstComponent(s) == s[1]

RECURSIVE MaxByLenFrom(_, _, _)
\* max(seq, key=len): the first element of greatest length.
MaxByLenFrom(s, i, best) ==
    IF i > Len(s) THEN best
    ELSE MaxByLenFrom(s, i + 1,
            IF Cardinality(s[i]) > Cardinality(best) THEN s[i] ELSE best)

MaxByLen(s) == MaxByLenFrom(s, 2, s[1])

\* G.subgraph(comp).copy()
subgraph(G, comp) ==
    [nodes |-> comp,
     edges |-> {e \in G.edges : e[1] \in comp /\ e[2] \in comp},
     pos   |-> [v \in comp |-> G.pos[v]]]

\* Variant: the reduction is skipped.
NoReduction(G) == G

\* largest_component(G) / largest_connected_component(G), for G with >= 1 node.
largest_component(G) ==
    LET UG == to_undirected(G)
    IN  IF is_connected(UG) THEN G
        ELSE subgraph(G, MaxByLen(connected_components(UG)))

\* ------------------------------------------------------- shortest paths
Succ(G, v) == {e[2] : e \in {f \in G.edges : f[1] = v}}

\* networkx weight function on a multigraph: min over the parallel edges.
EdgeWeight(G, u, v) == Min({e[3] : e \in {f \in G.edges : f[1] = u /\ f[2] = v}})

RECURSIVE DijkstraLoop(_, _, _)
\* dist: finalised distances; seen: tentative distances (fringe = seen \ dist).
DijkstraLoop(G, dist, seen) ==
    LET fringe == DOMAIN seen \ DOMAIN dist
    IN  IF fringe = {} THEN dist
        ELSE LET v  == CHOOSE x \in fringe : \A y \in fringe : seen[x] <= seen[y]
                 d2 == [x \in DOMAIN dist \cup {v} |->
                           IF x = v THEN seen[v] ELSE dist[x]]
                 relax == {w \in Succ(G, v) :
                             /\ w \notin DOMAIN d2
                             /\ (w \notin DOMAIN seen
                                 \/ seen[v] + EdgeWeight(G, v, w) < seen[w])}
                 s2 == [x \in DOMAIN seen \cup relax |->
                           IF x \in relax THEN seen[v] + EdgeWeight(G, v, x)
                           ELSE seen[x]]
             IN  DijkstraLoop(G, d2, s2)

\* nx.single_source_dijkstra_path_length(G, u, weight="length"):
\* reached node -> distance, the source included with distance 0.
single_source_dijkstra_path_length(G, u) ==
    DijkstraLoop(G, <<>>, [x \in {u} |-> 0])

\* Variant: the mean divides by len(lengths), the source included.
MeanInclSelf(G, u) ==
    LET lengths == single_source_dijkstra_path_length(G, u)
    IN  IF Cardinality(DOMAIN lengths) > 1
        THEN PyDiv(SumSet(lengths, DOMAIN lengths \ {u}),
                   Cardinality(DOMAIN lengths))
        ELSE NaN

\* Variant: the guard on the number of reached nodes is dropped.
MeanUnguarded(G, u) ==
    LET lengths == single_source_dijkstra_path_length(G, u)
    IN  PyDiv(SumSet(lengths, DOMAIN lengths \ {u}),
              Cardinality(DOMAIN lengths) - 1)

\* One iteration of the loop of all_pairs_mean_shortest_path_length.
MeanFrom(G, u) ==
    LET lengths == single_source_dijkstra_path_length(G, u)
    IN  IF Cardinality(DOMAIN lengths) > 1
        THEN PyDiv(SumSet(lengths, DOMAIN lengths \ {u}),
                   Cardinality(DOMAIN lengths) - 1)
        ELSE NaN

all_pairs_mean_shortest_path_length(G) == [u \in G.nodes |-> MeanFrom(G, u)]

\* ------------------------------------------------------------ betweenness
RECURSIVE FSumSet(_, _)
\* Sum of the floats f[x] over x in S.
FSumSet(f, S) ==
    IF S = {} THEN Int2F(0)
    ELSE LET x == CHOOSE y \in S : TRUE IN FAdd(f[x], FSumSet(f, S \ {x}))

RECURSIVE Sigma(_, _, _, _)
\* Number of shortest paths from s to t, D being the distances from s:
\* sigma[t] is the sum of sigma[p] over the predecessors p on a shortest path.
Sigma(G, D, s, t) ==
    IF t = s THEN 1
    ELSE LET preds == {p \in DOMAIN D :
                          /\ t \in Succ(G, p)
                          /\ D[p] + EdgeWeight(G, p, t) = D[t]}
         IN  SumSet([p \in preds |-> Sigma(G, D, s, p)], preds)

\* Share of the shortest s-t paths that pass through v (0 if t is unreachable
\* from s); D[x] holds the distances from x.
PairDependency(G, D, s, t, v) ==
    IF /\ t \in DOMAIN D[s]
       /\ v \in DOMAIN D[s]
       /\ t \in DOMAIN D[v]
       /\ D[s][v] + D[v][t] = D[s][t]
    THEN Num(Sigma(G, D[s], s, v) * Sigma(G, D[v], v, t), Sigma(G, D[s], s, t))
    ELSE Int2F(0)

\* Variant: the scale of an undirected graph, 2 / ((n - 1) * (n - 2)).
RescaleUndirected(b, n) ==
    IF n <= 2 THEN b ELSE FDiv(FMul(Int2F(2), b), Int2F((n - 1) * (n - 2)))

\* _rescale for a directed graph, normalized=True, endpoints=False:
\* no scaling for n <= 2, otherwise 1 / ((n - 1) * (n - 2)).
Rescale(b, n) ==
    IF n <= 2 THEN b ELSE FDiv(b, Int2F((n - 1) * (n - 2)))

\* Betweenness of every node from the table D of all shortest distances.
BetweennessFrom(G, D) ==
    [v \in G.nodes |->
        LET pairs == {st \in (G.nodes \ {v}) \X (G.nodes \ {v}) : st[1] # st[2]}
        IN  Rescale(FSumSet([st \in pairs |->
                                PairDependency(G, D, st[1], st[2], v)], pairs),
                    Cardinality(G.nodes))]

\* nx.betweenness_centrality(G, weight="length", normalized=True)
betweenness_centrality(G) ==
    CHOOSE b \in {BetweennessFrom(G, D) :
                    D \in {[s \in G.nodes |->
                              single_source_dijkstra_path_length(G, s)]}} : TRUE

\* ---------------------------------------------------------------- strings
\* A string is a sequence of characters; the characters are digits 0..9 and
\* 10 for any other character (11 for ".", 12 for a sign, "+" or "-").
RECURSIVE SeqLess(_, _)
\* Lexicographic order of strings (the order groupby sorts its keys in).
SeqLess(a, b) ==
    IF b = <<>> THEN FALSE
    ELSE IF a = <<>> THEN TRUE
    ELSE IF Head(a) # Head(b) THEN Head(a) < Head(b)
    ELSE SeqLess(Tail(a), Tail(b))

\* Variant: the string is not cut.
WholeString(s) == s

\* s[-12:]
LastChars(s) ==
    IF Len(s) <= KeyLen THEN s ELSE SubSeq(s, Len(s) - KeyLen + 1, Len(s))

RECURSIVE PadLeft(_, _)
\* s with "0" characters on its left up to the width w.
PadLeft(s, w) == IF Len(s) >= w THEN s ELSE PadLeft(<<0>> \o s, w)

\* Series.str.zfill(12) under a pandas build: older builds pad on the left
\* of the string ("pad_left"), later ones call str.zfill, which pads after a
\* leading sign ("str.zfill").
zfillOf(build, s) ==
    IF build = "str.zfill" /\ Len(s) < KeyLen /\ s # <<>> /\ Head(s) = 12
    THEN <<12>> \o PadLeft(Tail(s), KeyLen - 1)
    ELSE PadLeft(s, KeyLen)

\* s.zfill(12)
zfill(s) == zfillOf("str.zfill", s)

\* .astype(str).str[-12:].str.zfill(12) under a pandas build.
NormalizeWith(build, s) == zfillOf(build, LastChars(s))

\* .astype(str).str[-12:].str.zfill(12)
NormalizeKey(s) == zfill(LastChars(s))

RECURSIVE SortKeys(_)
\* The strings of S in ascending order.
SortKeys(S) ==
    IF S = {} THEN <<>>
    ELSE LET m == CHOOSE x \in S : \A y \in S : y = x \/ SeqLess(x, y)
         IN  <<m>> \o SortKeys(S \ {m})

\* The missing key of a left join without a match.
KeyNaN == <<-1>>

\* --------------------------------------------------------------- geometry
\* A geometry is [kind, cells]: kind "poly" with a non-empty set of cells,
\* "empty" (an empty geometry) or "none" (a missing geometry).
Cells == 1..NumCells
Positions == 0..(2 * NumCells)

\* Projection of a grid length to the metric CRS (EPSG:3857 in the script).
geodesic_to_metric(x) == x * MetersPerUnit

\* geometry.area in the metric CRS: a cell is 2 x 2 grid units.
Area(geom) ==
    IF geom.kind = "none" THEN NaN
    ELSE IF geom.kind = "empty" THEN Int2F(0)
    ELSE Int2F(Cardinality(geom.cells)
               * geodesic_to_metric(2) * geodesic_to_metric(2))

\* Variant: the area is left in square metres.
AreaNotConverted(geom) == Area(geom)

\* bg_m.geometry.area / 1_000_000.0
area_km2(geom) == FDiv(Area(geom), Int2F(M2PerKm2))

\* The cell of the grid unit [k, k+1].
CellOf(k) == (k \div 2) + 1

\* Variant: predicate="intersects", the point lies in the polygon or on its
\* border.
Intersects(p, geom) ==
    /\ geom.kind = "poly"
    /\ IF p % 2 = 1 THEN CellOf(p) \in geom.cells
       ELSE \/ (p > 0 /\ CellOf(p - 1) \in geom.cells)
            \/ (p < 2 * NumCells /\ CellOf(p) \in geom.cells)

\* predicate="within": the point lies in the interior of the polygon.
Within(p, geom) ==
    /\ geom.kind = "poly"
    /\ IF p % 2 = 1 THEN CellOf(p) \in geom.cells
       ELSE /\ p > 0
            /\ p < 2 * NumCells
            /\ CellOf(p - 1) \in geom.cells
            /\ CellOf(p) \in geom.cells

\* The grid units covered by the straight edge between positions a and b.
EdgeUnits(a, b) == IF a <= b THEN a..(b - 1) ELSE b..(a - 1)

\* Length in metres of the edge geometry in the metric CRS.
EdgeGeomLength(G, e) ==
    geodesic_to_metric(Cardinality(EdgeUnits(G.pos[e[1]], G.pos[e[2]])))

\* Variant: an edge that meets the polygon counts with its whole length.
WholeLength(G, e, geom) ==
    IF geom.kind # "poly" THEN 0
    ELSE IF \E k \in EdgeUnits(G.pos[e[1]], G.pos[e[2]]) : CellOf(k) \in geom.cells
    THEN EdgeGeomLength(G, e)
    ELSE 0

\* Length in metres of the part of the edge inside the polygon
\* (the geometry of the overlay's intersection row).
ClipLength(G, e, geom) ==
    IF geom.kind # "poly" THEN 0
    ELSE geodesic_to_metric(
            Cardinality({k \in EdgeUnits(G.pos[e[1]], G.pos[e[2]]) :
                            CellOf(k) \in geom.cells}))

\* ------------------------------------------------------------ aggregation
RECURSIVE InsertSorted(_, _)
InsertSorted(x, s) ==
    IF s = <<>> THEN <<x>>
    ELSE IF FLe(x, Head(s)) THEN <<x>> \o s
    ELSE <<Head(s)>> \o InsertSorted(x, Tail(s))

RECURSIVE SortFloats(_)
SortFloats(s) ==
    IF s = <<>> THEN <<>> ELSE InsertSorted(Head(s), SortFloats(Tail(s)))

\* Variant: missing values count as 0 in the mean.
MeanFillZero(s) ==
    IF s = <<>> THEN NaN
    ELSE FDiv(FSum([j \in 1..Len(s) |-> IF IsNaN(s[j]) THEN Int2F(0) ELSE s[j]]),
              Int2F(Len(s)))

\* Series.mean(): NaN values are skipped; the mean of nothing is NaN.
Mean(s) ==
    LET vals == SelectNotNaN(s)
    IN  IF vals = <<>> THEN NaN ELSE FDiv(FSum(vals), Int2F(Len(vals)))

\* Series.quantile(0.90): linear interpolation between the order statistics
\* around position 0.9 * (n - 1); NaN values are skipped.
Quantile90(s) ==
    LET vals == SortFloats(SelectNotNaN(s))
        n    == Len(vals)
        lo   == ((n - 1) * P90Num) \div P90Den
        fr   == ((n - 1) * P90Num) % P90Den
    IN  IF n = 0 THEN NaN
        ELSE IF fr = 0 THEN vals[lo + 1]
        ELSE FAdd(vals[lo + 1],
                  FMul(Num(fr, P90Den), FSub(vals[lo + 2], vals[lo + 1])))

RECURSIVE Flatten(_)
Flatten(ss) == IF ss = <<>> THEN <<>> ELSE Head(ss) \o Flatten(Tail(ss))

\* gpd.sjoin(nodes, bg, predicate="within", how="left"): one row per node and
\* matching polygon, in node order; a node without a match keeps one row
\* whose GEOID_BG is missing.
sjoin(H, b, a, polys) ==
    LET nodeSeq == SetToSeq(H.nodes)
        Row(v, key) == [node |-> v, GEOID_BG |-> key,
                        betweenness |-> b[v], aspl |-> a[v]]
        Matches(v) == {i \in 1..Len(polys) : Within(H.pos[v], polys[i].geom)}
        RowsOf(v) ==
            IF Matches(v) = {} THEN <<Row(v, KeyNaN)>>
            ELSE LET ms == SetToSeq(Matches(v))
                 IN  [j \in 1..Len(ms) |-> Row(v, polys[ms[j]].GEOID_BG)]
    IN  Flatten([j \in 1..Len(nodeSeq) |-> RowsOf(nodeSeq[j])])

\* groupby("GEOID_BG") drops the missing key and sorts the groups by key.
GroupKeys(rows) == SortKeys({r.GEOID_BG : r \in rows} \ {KeyNaN})

\* nodes_in_bg.groupby("GEOID_BG").agg(...).reset_index()
NodesGroupBy(joined) ==
    LET keys == GroupKeys({joined[j] : j \in 1..Len(joined)})
        Grp(key) == SelectSeq(joined, LAMBDA r : r.GEOID_BG = key)
        Col(g, f) == [j \in 1..Len(g) |-> g[j][f]]
    IN  [j \in 1..Len(keys) |->
            LET g == Grp(keys[j])
            IN  [GEOID_BG         |-> keys[j],
                 nodes_in_bg      |-> Int2F(Len(g)),
                 betweenness_mean |-> Mean(Col(g, "betweenness")),
                 betweenness_p90  |-> Quantile90(Col(g, "betweenness")),
                 aspl_mean        |-> Mean(Col(g, "aspl"))]]

\* gpd.overlay(edges, bg, how="intersection"): one row per edge and polygon
\* whose intersection is a line (keep_geom_type drops point contacts);
\* len_km is the length of the clipped geometry in km.
overlay(H, polys) ==
    LET pieces == {[edge |-> x[1], row |-> x[2],
                    GEOID_BG |-> polys[x[2]].GEOID_BG,
                    len_m |-> ClipLength(H, x[1], polys[x[2]].geom)] :
                      x \in H.edges \X (1..Len(polys))}
    IN  {[edge |-> r.edge, row |-> r.row, GEOID_BG |-> r.GEOID_BG,
          len_km |-> FDiv(Int2F(r.len_m), Int2F(MPerKm))] :
            r \in {q \in pieces : q.len_m > 0}}

\* inter.groupby("GEOID_BG").agg(edges_km=("len_km","sum")).reset_index()
EdgesGroupBy(inter) ==
    LET keys == GroupKeys(inter)
    IN  [j \in 1..Len(keys) |->
            LET g == {r \in inter : r.GEOID_BG = keys[j]}
            IN  [GEOID_BG |-> keys[j],
                 edges_km |-> FSumSet([r \in g |-> r.len_km], g)]]

\* Variant: the summaries are attached by row position instead of by key.
ConcatMetrics(polys, ngrp, egrp) ==
    [i \in 1..Len(polys) |->
        LET area  == area_km2(polys[i].geom)
            NCol(f) == IF i <= Len(ngrp) THEN ngrp[i][f] ELSE NaN
            ekm   == IF i <= Len(egrp) THEN egrp[i].edges_km ELSE NaN
        IN  [GEOID_BG         |-> polys[i].GEOID_BG,
             area_km2         |-> area,
             nodes_in_bg      |-> NCol("nodes_in_bg"),
             edges_km         |-> ekm,
             node_density     |-> FDiv(NCol("nodes_in_bg"), area),
             edge_km_density  |-> FDiv(ekm, area),
             betweenness_mean |-> NCol("betweenness_mean"),
             betweenness_p90  |-> NCol("betweenness_p90"),
             aspl_mean        |-> NCol("aspl_mean")]]

\* Variant: the missing values of the merge are filled with 0.
LookupFillZero(grp, key, f) ==
    LET hits == {j \in 1..Len(grp) : grp[j].GEOID_BG = key}
    IN  IF hits = {} THEN Int2F(0) ELSE grp[Min(hits)][f]

\* The value of column f in the rows of grp matching key: the right side of
\* a how="left" merge (grp has one row per key; no match gives NaN).
Lookup(grp, key, f) ==
    LET hits == {j \in 1..Len(grp) : grp[j].GEOID_BG = key}
    IN  IF hits = {} THEN NaN ELSE grp[Min(hits)][f]

\* Variant: the summaries are merged with how="inner", which keeps the block
\* groups that have a node summary and an edge summary only.
InnerMergeMetrics(polys, ngrp, egrp) ==
    LET Has(grp, i) == \E j \in 1..Len(grp) : grp[j].GEOID_BG = polys[i].GEOID_BG
        kept == SelectSeq([i \in 1..Len(polys) |-> i],
                          LAMBDA i : Has(ngrp, i) /\ Has(egrp, i))
    IN  [k \in 1..Len(kept) |->
            LET key   == polys[kept[k]].GEOID_BG
                area  == area_km2(polys[kept[k]].geom)
                nodes == Lookup(ngrp, key, "nodes_in_bg")
                ekm   == Lookup(egrp, key, "edges_km")
            IN  [GEOID_BG         |-> key,
                 area_km2         |-> area,
                 nodes_in_bg      |-> nodes,
                 edges_km         |-> ekm,
                 node_density     |-> FDiv(nodes, area),
                 edge_km_density  |-> FDiv(ekm, area),
                 betweenness_mean |-> Lookup(ngrp, key, "betweenness_mean"),
                 betweenness_p90  |-> Lookup(ngrp, key, "betweenness_p90"),
                 aspl_mean        |-> Lookup(ngrp, key, "aspl_mean")]]

\* bg_m[["GEOID_BG","area_km2"]].merge(nodes_grp, how="left")
\*                              .merge(edges_grp, how="left"), then densities.
MergeMetrics(polys, ngrp, egrp) ==
    [i \in 1..Len(polys) |->
        LET key   == polys[i].GEOID_BG
            area  == area_km2(polys[i].geom)
            nodes == Lookup(ngrp, key, "nodes_in_bg")
            ekm   == Lookup(egrp, key, "edges_km")
        IN  [GEOID_BG         |-> key,
             area_km2         |-> area,
             nodes_in_bg      |-> nodes,
             edges_km         |-> ekm,
             node_density     |-> FDiv(nodes, area),
             edge_km_density  |-> FDiv(ekm, area),
             betweenness_mean |-> Lookup(ngrp, key, "betweenness_mean"),
             betweenness_p90  |-> Lookup(ngrp, key, "betweenness_p90"),
             aspl_mean        |-> Lookup(ngrp, key, "aspl_mean")]]

\* ------------------------------------------------------------------ state
VARIABLES
    pc,         \* position in computemetrics.py
    GRAPHML,    \* the graph file: [exists, graph]
    BG_GPKG,    \* the block-group layer: [keycol, rows]
    G,          \* the street graph after the reduction
    bg,         \* the block-group rows with their GEOID_BG key
    btw,        \* node -> betweenness
    aspl,       \* node -> mean shortest-path length
    nodes_grp,  \* per block group node summary
    inter,      \* the clipped pieces of the edges, one per edge and polygon
    edges_grp,  \* per block group edge summary
    metrics,    \* the merged table
    OUT_CSV,    \* bg_metrics.csv: [written, rows]
    diag        \* the diagnostic of a halted run

\* The Census fetch scripts (HW4/deliverable1.py, HW4/deliverable2.py).
VARIABLES
    fscript,    \* the script that runs: "deliverable1", "deliverable2", "none"
    fpc,        \* position in the script
    call,       \* deliverable1: 1 = the 2020 call of fetch_census, 2 = the 2010 call
    t,          \* index of the current tract in the tract list
    attempt,    \* value of the retry loop variable (0, 1)
    frames,     \* the frames collected so far, one per fetched tract
    df,         \* call -> the table the call has returned
    log,        \* the requests, pauses and warnings so far, in order
    files       \* file name -> [written, rows]

fetchVars == <<fscript, fpc, call, t, attempt, frames, df, log, files>>

\* The join scripts (aggregatetobg.py, HW4/deliverable3.py).
VARIABLES
    jscript,    \* the script that runs: "aggregatetobg", "deliverable3", "none"
    jpc,        \* position in the script
    ACS_CSV,    \* the ACS table on disk: [cols, rows]
    METRICS,    \* bg_metrics.csv on disk (aggregatetobg), the block-group
                \* shapefile keys (deliverable3): a sequence of rows
    acs,        \* the ACS table in memory
    joined,     \* the merged table (joined in aggregatetobg, g in deliverable3)
    JOINED,     \* the output file: [written, table]
    jdiag       \* the diagnostic of a halted run

joinVars == <<jscript, jpc, ACS_CSV, METRICS, acs, joined, JOINED, jdiag>>

\* The input check (checkinputs.py).
VARIABLES
    cpc,        \* position in checkinputs.py
    CHECK_CSV,  \* the file ACS_CSV as checkinputs finds it: [state, cols, rows]
    gpd,        \* whether "import geopandas as gpd" succeeds
    SPATIAL,    \* the spatial files: [gpkg, geojson, keycol, keys]
    cdf,        \* the table df in memory
    ran,        \* the checks evaluated so far, in order
    printed,    \* the tags of the lines printed so far, in order
    cexit       \* the exit code of the process (NoExit while it runs)

checkVars == <<cpc, CHECK_CSV, gpd, SPATIAL, cdf, ran, printed, cexit>>

\* A GEOID_BG cell on its way through the scripts that normalize the join
\* key (checkinputs.py line 47, computemetrics.py line 73, aggregatetobg.py
\* lines 28-29).
VARIABLES
    kbuild,     \* the pandas build: "pad_left" or "str.zfill" ("none": no cell)
    kraw,       \* the text of the cell before any script has touched it
    kpasses,    \* the scripts that have normalized it so far, in order
    kvals       \* the value of the cell after each of them

keyVars == <<kbuild, kraw, kpasses, kvals>>

metricsVars == <<pc, GRAPHML, BG_GPKG, G, bg, btw, aspl, nodes_grp, inter, edges_grp,
                 metrics, OUT_CSV, diag>>

vars == <<metricsVars, fetchVars, joinVars, checkVars, keyVars>>

\* The steps of computemetrics.py leave the other scripts' state alone.
otherVars == <<fetchVars, joinVars, checkVars, keyVars>>

\* No fetch script runs.
FetchIdle ==
    /\ fscript = "none"
    /\ fpc = "idle"
    /\ call = 0
    /\ t = 0
    /\ attempt = 0
    /\ frames = <<>>
    /\ df = <<>>
    /\ log = <<>>
    /\ files = <<>>

NoTable == [cols |-> {}, rows |-> <<>>]

\* The process has not exited.
NoExit == -1

\* No cell is followed.
KeyIdle ==
    /\ kbuild = "none"
    /\ kraw = <<>>
    /\ kpasses = <<>>
    /\ kvals = <<>>

\* The input check does not run.
CheckIdle ==
    /\ cpc = "idle"
    /\ CHECK_CSV = [state |-> "missing", cols |-> {}, rows |-> <<>>]
    /\ gpd = FALSE
    /\ SPATIAL = [gpkg |-> "missing", geojson |-> "missing", keycol |-> "none",
                  keys |-> {}]
    /\ cdf = NoTable
    /\ ran = <<>>
    /\ printed = <<>>
    /\ cexit = NoExit

\* No join script runs.
JoinIdle ==
    /\ jscript = "none"
    /\ jpc = "idle"
    /\ ACS_CSV = NoTable
    /\ METRICS = <<>>
    /\ acs = NoTable
    /\ joined = NoTable
    /\ JOINED = [written |-> FALSE, table |-> NoTable]
    /\ jdiag = ""

Halt(msg) ==
    /\ pc' = "failed"
    /\ diag' = msg

\* Lines 55-60: load the graph and keep its largest component.
LoadGraph ==
    /\ pc = "start"
    /\ UNCHANGED otherVars
    /\ IF ~GRAPHML.exists
       THEN Halt("GraphML not found") /\ UNCHANGED G
       ELSE IF GRAPHML.graph.nodes = {}
       THEN Halt("NetworkXPointlessConcept") /\ UNCHANGED G
       ELSE /\ G' = largest_component(GRAPHML.graph)
            /\ pc' = "graph_loaded"
            /\ UNCHANGED diag
    /\ UNCHANGED <<GRAPHML, BG_GPKG, bg, btw, aspl, nodes_grp, inter, edges_grp,
                   metrics, OUT_CSV>>

\* Variant: the layer is taken as it is read, without the checks of lines
\* 67-75.
LoadBGUnchecked ==
    /\ pc = "graph_loaded"
    /\ UNCHANGED otherVars
    /\ bg' = [i \in 1..Len(BG_GPKG.rows) |->
                [GEOID_BG |-> BG_GPKG.rows[i].key, geom |-> BG_GPKG.rows[i].geom]]
    /\ pc' = "bg_loaded"
    /\ UNCHANGED <<GRAPHML, BG_GPKG, G, btw, aspl, nodes_grp, inter, edges_grp,
                   metrics, OUT_CSV, diag>>

\* Lines 62-75: read the layer and make sure it has a GEOID_BG key.
LoadBG ==
    /\ pc = "graph_loaded"
    /\ UNCHANGED otherVars
    /\ IF BG_GPKG.rows = <<>>
       THEN Halt("No BG geometries found") /\ UNCHANGED bg
       ELSE IF BG_GPKG.keycol = "GEOID_BG"
       THEN /\ bg' = [i \in 1..Len(BG_GPKG.rows) |->
                        [GEOID_BG |-> BG_GPKG.rows[i].key,
                         geom     |-> BG_GPKG.rows[i].geom]]
            /\ pc' = "bg_loaded"
            /\ UNCHANGED diag
       ELSE IF BG_GPKG.keycol = "GEOID"
       THEN /\ bg' = [i \in 1..Len(BG_GPKG.rows) |->
                        [GEOID_BG |-> NormalizeKey(BG_GPKG.rows[i].key),
                         geom     |-> BG_GPKG.rows[i].geom]]
            /\ pc' = "bg_loaded"
            /\ UNCHANGED diag
       ELSE Halt("BG layer lacks GEOID/GEOID_BG") /\ UNCHANGED bg
    /\ UNCHANGED <<GRAPHML, BG_GPKG, G, btw, aspl, nodes_grp, inter, edges_grp,
                   metrics, OUT_CSV>>

\* Lines 77-100: node and edge tables, node betweenness and mean
\* shortest-path length.  ox.graph_to_gdfs(G, nodes=True, edges=True) raises
\* ValueError on a graph without edges; the edges of the file carry their
\* length attribute, so line 81 finds the column.
ComputeNodeMetrics ==
    /\ pc = "bg_loaded"
    /\ UNCHANGED otherVars
    /\ IF G.edges = {}
       THEN Halt("graph contains no edges") /\ UNCHANGED <<btw, aspl>>
       ELSE LET a == all_pairs_mean_shortest_path_length(G)
            IN  IF \E u \in G.nodes : a[u] = ZeroDivisionError
                THEN Halt("ZeroDivisionError") /\ UNCHANGED <<btw, aspl>>
                ELSE /\ btw' = betweenness_centrality(G)
                     /\ aspl' = a
                     /\ pc' = "node_metrics"
                     /\ UNCHANGED diag
    /\ UNCHANGED <<GRAPHML, BG_GPKG, G, bg, nodes_grp, inter, edges_grp, metrics,
                   OUT_CSV>>

\* Lines 111-118: nodes within block groups, counts and statistics.
AggregateNodes ==
    /\ pc = "node_metrics"
    /\ UNCHANGED otherVars
    /\ nodes_grp' = NodesGroupBy(sjoin(G, btw, aspl, bg))
    /\ pc' = "nodes_agg"
    /\ UNCHANGED <<GRAPHML, BG_GPKG, G, bg, btw, aspl, inter, edges_grp, metrics,
                   OUT_CSV, diag>>

\* Lines 120-125: edges clipped by block groups, summed length.
AggregateEdges ==
    /\ pc = "nodes_agg"
    /\ UNCHANGED otherVars
    /\ inter' = overlay(G, bg)
    /\ edges_grp' = EdgesGroupBy(inter')
    /\ pc' = "edges_agg"
    /\ UNCHANGED <<GRAPHML, BG_GPKG, G, bg, btw, aspl, nodes_grp, metrics,
                   OUT_CSV, diag>>

\* Lines 127-137: merge the summaries with the areas and divide by the area.
Normalize ==
    /\ pc = "edges_agg"
    /\ UNCHANGED otherVars
    /\ metrics' = MergeMetrics(bg, nodes_grp, edges_grp)
    /\ pc' = "normalized"
    /\ UNCHANGED <<GRAPHML, BG_GPKG, G, bg, btw, aspl, nodes_grp, inter, edges_grp,
                   OUT_CSV, diag>>

\* Variant: the table is appended to the file instead of replacing it.
AppendOutput ==
    /\ pc = "normalized"
    /\ UNCHANGED otherVars
    /\ OUT_CSV' = [written |-> TRUE, rows |-> OUT_CSV.rows \o metrics]
    /\ pc' = "written"
    /\ UNCHANGED <<GRAPHML, BG_GPKG, G, bg, btw, aspl, nodes_grp, inter, edges_grp,
                   metrics, diag>>

\* Lines 139-143: write bg_metrics.csv.
WriteOutput ==
    /\ pc = "normalized"
    /\ UNCHANGED otherVars
    /\ OUT_CSV' = [written |-> TRUE, rows |-> metrics]
    /\ pc' = "written"
    /\ UNCHANGED <<GRAPHML, BG_GPKG, G, bg, btw, aspl, nodes_grp, inter, edges_grp,
                   metrics, diag>>

Next ==
    \/ LoadGraph
    \/ LoadBG
    \/ ComputeNodeMetrics
    \/ AggregateNodes
    \/ AggregateEdges
    \/ Normalize
    \/ WriteOutput

\* ----------------------------------------------------------------- inputs
\* A street joins two nodes u < v; it is one-way ("fwd": u -> v, "back":
\* v -> u) or two-way ("both": one edge each way, of the same length).
Pairs(n) == {p \in (1..n) \X (1..n) : p[1] < p[2]}

Directions == {"fwd", "back", "both"}

StreetEdges(p, dir, len) ==
    (IF dir \in {"fwd", "both"} THEN {<<p[1], p[2], len>>} ELSE {})
    \cup (IF dir \in {"back", "both"} THEN {<<p[2], p[1], len>>} ELSE {})

\* Grid position of node v when the positions are not varied.
StdPos(v) == Min({2 * v - 1, 2 * NumCells})

\* The graph on nodes 1..n whose streets are the pairs of DOMAIN f, street p
\* having direction f[p][1] and length f[p][2].
StreetGraph(n, f) ==
    [nodes |-> 1..n,
     edges |-> UNION {StreetEdges(p, f[p][1], f[p][2]) : p \in DOMAIN f},
     pos   |-> [v \in 1..n |-> StdPos(v)]]

\* The path A - B - C of the specification's scenario: A-B 100 m, B-C 150 m,
\* both two-way (A = 1, B = 2, C = 3).
ScenarioGraph ==
    [nodes |-> {1, 2, 3},
     edges |-> StreetEdges(<<1, 2>>, "both", 100)
               \cup StreetEdges(<<2, 3>>, "both", 150),
     pos   |-> [v \in {1, 2, 3} |-> StdPos(v)]]

\* Graphs with a loop road (an edge from a node to itself): a single node
\* with a loop, and two nodes with a loop at the first, joined or not.
LoopGraphs ==
    {[nodes |-> {1},
      edges |-> {<<1, 1, 100>>},
      pos   |-> [v \in {1} |-> StdPos(v)]],
     [nodes |-> {1, 2},
      edges |-> {<<1, 1, 100>>},
      pos   |-> [v \in {1, 2} |-> StdPos(v)]],
     [nodes |-> {1, 2},
      edges |-> {<<1, 1, 100>>, <<2, 1, 300>>},
      pos   |-> [v \in {1, 2} |-> StdPos(v)]]}

\* Two nodes joined by one street of 100 m, at any two positions.
TwoNodeGraphs ==
    {[nodes |-> {1, 2},
      edges |-> StreetEdges(<<1, 2>>, dir, 100),
      pos   |-> q] :
        dir \in {"fwd", "both"}, q \in [{1, 2} -> Positions]}

\* The 12-character GEOID of the block group number i of tract 750100 in
\* Cook County, Illinois: 17 031 750100 i.
BGKey(i) == <<1, 7, 0, 3, 1, 7, 5, 0, 1, 0, 0, i>>

\* The same identifier with the prefix of a long-form GEOID ("US" + key).
LongKey(i) == <<10, 10>> \o BGKey(i)

Geoms ==
    {[kind |-> "none", cells |-> {}], [kind |-> "empty", cells |-> {}]}
    \cup {[kind |-> "poly", cells |-> c] : c \in (SUBSET Cells) \ {{}}}

\* Block groups partition the land: no two polygons share a cell.
Disjoint(g) ==
    \A i, j \in DOMAIN g : i # j => g[i].cells \cap g[j].cells = {}

\* Layers of m rows; the rows are stored in descending key order.
Layers(m, keycol) ==
    {[keycol |-> keycol,
      rows   |-> [i \in 1..m |->
                    [key  |-> IF keycol = "GEOID" THEN LongKey(m + 1 - i)
                              ELSE BGKey(m + 1 - i),
                     geom |-> g[i]]]] :
        g \in {h \in [1..m -> Geoms] : Disjoint(h)}}

\* One polygon per cell, as many as the layer may hold.
StdLayer(keycol) ==
    LET m == Min({MaxBG, NumCells})
    IN  [keycol |-> keycol,
         rows   |-> [i \in 1..m |->
                       [key  |-> IF keycol = "GEOID" THEN LongKey(m + 1 - i)
                                 ELSE BGKey(m + 1 - i),
                        geom |-> [kind |-> "poly", cells |-> {i}]]]]

EmptyLayer == [keycol |-> "GEOID_BG", rows |-> <<>>]

InitState ==
    /\ pc = "start"
    /\ G = NullGraph
    /\ bg = <<>>
    /\ btw = <<>>
    /\ aspl = <<>>
    /\ nodes_grp = <<>>
    /\ inter = {}
    /\ edges_grp = <<>>
    /\ metrics = <<>>
    /\ OUT_CSV = [written |-> FALSE, rows |-> <<>>]
    /\ diag = ""
    /\ FetchIdle
    /\ JoinIdle
    /\ CheckIdle
    /\ KeyIdle

\* Graph inputs: every graph of at most MaxNodes nodes and MaxStreets
\* streets and the graphs with a loop road, over a layer of one polygon per cell;
\* the scenario graph over the layer variants; a missing graph file.
Init ==
    /\ InitState
    /\ \/ /\ \E n \in 0..MaxNodes :
             \E P \in SUBSET Pairs(n) :
                /\ Cardinality(P) <= MaxStreets
                /\ \E f \in [P -> Directions \X Lengths] :
                      GRAPHML = [exists |-> TRUE, graph |-> StreetGraph(n, f)]
          /\ BG_GPKG = StdLayer("GEOID_BG")
       \/ /\ GRAPHML \in {[exists |-> TRUE, graph |-> g] : g \in LoopGraphs}
          /\ BG_GPKG = StdLayer("GEOID_BG")
       \/ /\ GRAPHML = [exists |-> TRUE, graph |-> ScenarioGraph]
          /\ BG_GPKG \in {StdLayer("GEOID_BG"), StdLayer("GEOID"),
                          StdLayer("none"), EmptyLayer}
       \/ /\ GRAPHML = [exists |-> FALSE, graph |-> NullGraph]
          /\ BG_GPKG = StdLayer("GEOID_BG")

Spec == Init /\ [][Next]_vars

\* Block-group inputs: every layer of at most MaxBG disjoint polygons (empty
\* and missing geometries included), under a two-node graph at any positions
\* and under the scenario graph.
InitBG ==
    /\ InitState
    /\ \/ /\ GRAPHML \in {[exists |-> TRUE, graph |-> g] :
                            g \in TwoNodeGraphs \cup {ScenarioGraph}}
          /\ BG_GPKG \in UNION {Layers(m, "GEOID_BG") : m \in 0..MaxBG}
       \/ /\ GRAPHML \in {[exists |-> TRUE, graph |-> ScenarioGraph],
                          [exists |-> FALSE, graph |-> NullGraph],
                          [exists |-> TRUE, graph |-> NullGraph]}
          /\ BG_GPKG \in {StdLayer("GEOID"), StdLayer("none")}

SpecBG == InitBG /\ [][Next]_vars

RECURSIVE Letters(_)
\* A prefix of n characters that are not digits.
Letters(n) == IF n = 0 THEN <<>> ELSE <<10>> \o Letters(n - 1)

\* Layers of m rows that carry the same block-group identifier: the same
\* GEOID_BG in every row, or GEOIDs that differ before their last 12
\* characters only.
DupLayers(m, keycol) ==
    {[keycol |-> keycol,
      rows   |-> [i \in 1..m |->
                    [key  |-> IF keycol = "GEOID" THEN Letters(i) \o BGKey(1)
                              ELSE BGKey(1),
                     geom |-> g[i]]]] :
        g \in {h \in [1..m -> Geoms] : Disjoint(h)}}

\* Layer inputs with repeated identifiers, under the scenario graph.
InitDup ==
    /\ InitState
    /\ GRAPHML = [exists |-> TRUE, graph |-> ScenarioGraph]
    /\ BG_GPKG \in UNION {DupLayers(m, kc) :
                             m \in 2..MaxBG, kc \in {"GEOID_BG", "GEOID"}}

\* Every layer: distinct identifiers or repeated ones.
SpecLayers == (InitBG \/ InitDup) /\ [][Next]_vars

\* ============================================================ properties
\* H has no cut: every proper non-empty part of its nodes is joined to the
\* rest by an edge in one direction or the other (connected as undirected).
NoCut(H) ==
    \A S \in SUBSET H.nodes :
        (S # {} /\ S # H.nodes) =>
            \E e \in H.edges : (e[1] \in S) # (e[2] \in S)

\* The graph of the file has been loaded and reduced.
Reduced == pc # "start" /\ GRAPHML.exists /\ GRAPHML.graph.nodes # {}

\* C1: for every input graph with at least one node the reduction returns a
\* graph that is non-empty and connected when its edges are taken as
\* undirected.
C1_ReducedConnected ==
    Reduced => (G.nodes # {} /\ NoCut(G))

C1_Witness ==
    /\ pc = "graph_loaded"
    /\ Cardinality(G.nodes) >= 2
    /\ G.nodes # GRAPHML.graph.nodes

\* The nodes S induce a connected subgraph of F.
InducedConnected(F, S) ==
    NoCut([nodes |-> S,
           edges |-> {e \in F.edges : e[1] \in S /\ e[2] \in S},
           pos   |-> <<>>])

\* C2: the reduction returns exactly the nodes of a largest undirected
\* component (a connected set closed under the edges of the input, no
\* connected set of the input being larger) with exactly the input edges
\* between them; a connected input is returned unchanged; reducing the
\* result again changes nothing.
C2_LargestComponent ==
    Reduced =>
        LET F == GRAPHML.graph
        IN  /\ G.nodes \subseteq F.nodes
            /\ InducedConnected(F, G.nodes)
            /\ \A e \in F.edges : (e[1] \in G.nodes) = (e[2] \in G.nodes)
            /\ \A S \in SUBSET F.nodes :
                  (S # {} /\ InducedConnected(F, S)) =>
                      Cardinality(S) <= Cardinality(G.nodes)
            /\ G.edges = {e \in F.edges : e[1] \in G.nodes /\ e[2] \in G.nodes}
            /\ \A v \in G.nodes : G.pos[v] = F.pos[v]
            /\ (NoCut(F) => G = F)
            /\ largest_component(G) = G

C2_Witness ==
    /\ pc = "graph_loaded"
    /\ 1 \notin G.nodes
    /\ Cardinality(G.nodes) >= 2
    /\ G.edges # {}

RECURSIVE PathLengths(_, _, _, _)
\* The lengths of the directed paths from u to v that avoid the nodes of
\* visited (u itself is in visited).
PathLengths(H, u, v, visited) ==
    IF u = v THEN {0}
    ELSE UNION {{e[3] + l : l \in PathLengths(H, e[2], v, visited \cup {e[2]})} :
                  e \in {f \in H.edges : f[1] = u /\ f[2] \notin visited}}

\* The nodes other than u that a directed path from u reaches.
Reachable(H, u) ==
    {v \in H.nodes \ {u} : PathLengths(H, u, v, {u}) # {}}

ShortestDistance(H, u, v) == Min(PathLengths(H, u, v, {u}))

\* C3 (as claimed): after the reduction every node reaches every other
\* retained node at a finite distance, so every mean is taken over all the
\* other retained nodes.
C3_AllPairsFinite ==
    pc = "node_metrics" =>
        \A u \in G.nodes :
            /\ DOMAIN single_source_dijkstra_path_length(G, u) = G.nodes
            /\ (Cardinality(G.nodes) > 1 => IsNum(aspl[u]))

\* C4: for every node u that reaches another node the mean is the sum of
\* the shortest-path distances from u to the nodes it reaches divided by
\* their number; on the scenario path A: 175 and B: 125.
C4_MeanShortestPath ==
    pc = "node_metrics" =>
        /\ \A u \in G.nodes :
              LET R == Reachable(G, u)
              IN  R # {} =>
                    /\ IsNum(aspl[u])
                    /\ aspl[u].n * Cardinality(R)
                         = aspl[u].d * SumSet([v \in R |-> ShortestDistance(G, u, v)], R)
        /\ GRAPHML.graph = ScenarioGraph =>
              (aspl[1] = Int2F(175) /\ aspl[2] = Int2F(125))

C4_Witness ==
    /\ pc = "node_metrics"
    /\ GRAPHML.graph = ScenarioGraph
    /\ aspl[1] = Int2F(175)
    /\ aspl[2] = Int2F(125)

\* C5: a node that reaches no other node gets NaN as its mean, never zero,
\* and the run never divides by zero.
C5_IsolatedIsNaN ==
    /\ diag # "ZeroDivisionError"
    /\ pc = "node_metrics" =>
          \A u \in G.nodes : Reachable(G, u) = {} => aspl[u] = NaN

C5_Witness ==
    /\ pc = "node_metrics"
    /\ Cardinality(G.nodes) >= 2
    /\ \E u \in G.nodes : Reachable(G, u) = {} /\ aspl[u] = NaN

\* C6: every retained node has a numeric betweenness in [0, 1], 0 in a
\* one-node graph (a node with a loop road, the only one-node graph that
\* gets as far as the metrics); on the scenario path B scores strictly more
\* than A and C.
C6_BetweennessRange ==
    pc = "node_metrics" =>
        /\ \A v \in G.nodes :
              /\ IsNum(btw[v])
              /\ FLe(Int2F(0), btw[v])
              /\ FLe(btw[v], Int2F(1))
              /\ (Cardinality(G.nodes) = 1 => btw[v] = Int2F(0))
        /\ GRAPHML.graph = ScenarioGraph =>
              (FLt(btw[1], btw[2]) /\ FLt(btw[3], btw[2]))

\* The one-node graph gets a betweenness of 0 and a mean of NaN.
OneNodeScored ==
    /\ pc = "node_metrics"
    /\ Cardinality(G.nodes) = 1
    /\ \A v \in G.nodes : btw[v] = Int2F(0) /\ aspl[v] = NaN

C6_Witness ==
    /\ pc = "node_metrics"
    /\ GRAPHML.graph = ScenarioGraph
    /\ FLt(btw[1], btw[2])
    /\ FLt(btw[3], btw[2])

\* ------------------------------------------------- block-group properties
\* The point p lies in the interior of the polygon made of the cells cs: in
\* one of its cells, or on the border between two of its cells.
LiesInside(p, cs) ==
    \/ (p % 2 = 1 /\ (p + 1) \div 2 \in cs)
    \/ (p % 2 = 0 /\ p \div 2 \in cs /\ p \div 2 + 1 \in cs)

\* The nodes of G inside the polygon of row i.
NodesInside(i) ==
    IF bg[i].geom.kind # "poly" THEN {}
    ELSE {v \in G.nodes : LiesInside(G.pos[v], bg[i].geom.cells)}

\* The grid units of edge e that lie in the cells cs.
UnitsIn(e, cs) ==
    {k \in 0..(2 * NumCells - 1) :
        /\ k >= Min({G.pos[e[1]], G.pos[e[2]]})
        /\ k < Max({G.pos[e[1]], G.pos[e[2]]})
        /\ (k \div 2) + 1 \in cs}

\* Metres of the edges of G inside the polygon of row i (a grid unit is
\* MetersPerUnit metres long).
EdgeMetresInside(i) ==
    IF bg[i].geom.kind # "poly" THEN 0
    ELSE SumSet([e \in G.edges |-> MetersPerUnit * Cardinality(UnitsIn(e, bg[i].geom.cells))],
                G.edges)

\* Area of a polygon in km^2: a cell is 1 km x 1 km (two grid units of 500 m).
PolyKm2(geom) == Cardinality(geom.cells)

Aggregated == pc \in {"normalized", "written"}

\* The diagnostics of loading and converting the inputs.
LoadDiagnostics ==
    {"GraphML not found", "NetworkXPointlessConcept", "No BG geometries found",
     "BG layer lacks GEOID/GEOID_BG", "graph contains no edges"}

\* C7: for a block group of positive area with a defined numerator the
\* density is the numerator divided by the area in km^2 (nodes / km^2,
\* km / km^2); when the area is zero or missing or the numerator is missing
\* the density is NaN; the run halts on load errors only.
C7_Density ==
    /\ pc = "failed" => diag \in LoadDiagnostics
    /\ Aggregated =>
        \A i \in 1..Len(metrics) :
            LET r    == metrics[i]
                geom == bg[i].geom
                ns   == NodesInside(i)
                em   == EdgeMetresInside(i)
            IN  /\ (IsNum(r.area_km2) /\ r.area_km2.n > 0 /\ IsNum(r.nodes_in_bg)) =>
                      FEq(FMul(r.node_density, r.area_km2), r.nodes_in_bg)
                /\ (IsNum(r.area_km2) /\ r.area_km2.n > 0 /\ IsNum(r.edges_km)) =>
                      FEq(FMul(r.edge_km_density, r.area_km2), r.edges_km)
                /\ (~IsNum(r.area_km2) \/ r.area_km2.n = 0 \/ IsNaN(r.nodes_in_bg)) =>
                      r.node_density = NaN
                /\ (~IsNum(r.area_km2) \/ r.area_km2.n = 0 \/ IsNaN(r.edges_km)) =>
                      r.edge_km_density = NaN
                /\ (geom.kind = "poly" /\ ns # {}) =>
                      /\ IsNum(r.node_density)
                      /\ r.node_density.n * PolyKm2(geom)
                           = r.node_density.d * Cardinality(ns)
                /\ (geom.kind = "poly" /\ em > 0) =>
                      /\ IsNum(r.edge_km_density)
                      /\ r.edge_km_density.n * PolyKm2(geom) * MPerKm
                           = r.edge_km_density.d * em
                /\ (geom.kind # "poly" \/ ns = {}) => r.node_density = NaN
                /\ (geom.kind # "poly" \/ em = 0) => r.edge_km_density = NaN

C7_Witness ==
    /\ pc = "normalized"
    /\ \E i, j \in 1..Len(metrics) :
          /\ IsNum(metrics[i].node_density)
          /\ metrics[i].node_density.d > 1
          /\ IsNum(metrics[i].edge_km_density)
          /\ IsNum(metrics[j].area_km2)
          /\ metrics[j].area_km2.n = 0
          /\ metrics[j].node_density = NaN

\* The node-derived columns of row r are all missing.
NodeColumnsMissing(r) ==
    /\ r.nodes_in_bg = NaN
    /\ r.betweenness_mean = NaN
    /\ r.betweenness_p90 = NaN
    /\ r.aspl_mean = NaN
    /\ r.node_density = NaN

\* C8 (as claimed): a block group without nodes has all node-derived columns
\* missing; one without nodes and without edges also has edges_km and
\* edge_km_density missing, and its area_km2 is a positive finite number.
C8_EmptyGroupPositiveArea ==
    Aggregated =>
        \A i \in 1..Len(metrics) :
            /\ NodesInside(i) = {} => NodeColumnsMissing(metrics[i])
            /\ (NodesInside(i) = {} /\ EdgeMetresInside(i) = 0) =>
                  /\ metrics[i].edges_km = NaN
                  /\ metrics[i].edge_km_density = NaN
                  /\ IsNum(metrics[i].area_km2)
                  /\ metrics[i].area_km2.n > 0

\* C8 (amended): as claimed, except that the area is a positive finite number
\* when the geometry of the block group is a non-empty polygon; it is 0 for
\* an empty geometry and missing for a missing one.
C8_EmptyGroupMissing ==
    Aggregated =>
        \A i \in 1..Len(metrics) :
            /\ NodesInside(i) = {} => NodeColumnsMissing(metrics[i])
            /\ (NodesInside(i) = {} /\ EdgeMetresInside(i) = 0) =>
                  /\ metrics[i].edges_km = NaN
                  /\ metrics[i].edge_km_density = NaN
                  /\ bg[i].geom.kind = "poly" =>
                        metrics[i].area_km2 = Int2F(PolyKm2(bg[i].geom))
                  /\ bg[i].geom.kind = "empty" => metrics[i].area_km2 = Int2F(0)
                  /\ bg[i].geom.kind = "none" => metrics[i].area_km2 = NaN

C8_Witness ==
    /\ pc = "normalized"
    /\ \E i, j \in 1..Len(metrics) :
          /\ bg[i].geom.kind = "poly"
          /\ NodesInside(i) = {}
          /\ EdgeMetresInside(i) = 0
          /\ NodeColumnsMissing(metrics[i])
          /\ metrics[i].edge_km_density = NaN
          /\ metrics[i].area_km2.n > 0
          /\ IsNum(metrics[j].nodes_in_bg)

\* Mean of f over the nodes of S whose value is a number (NaN if none).
MeanOver(f, S) ==
    LET T == {v \in S : IsNum(f[v])}
    IN  IF T = {} THEN NaN
        ELSE FDiv(FSumSet([v \in T |-> f[v]], T), Int2F(Cardinality(T)))

\* C9: the node count of a block group is the number of nodes inside its
\* polygon and its mean betweenness and mean ASPL are taken over those
\* nodes; a node inside no polygon is counted nowhere, so the counts sum to
\* at most the number of nodes of the graph.
C9_NodesWithin ==
    Aggregated =>
        /\ \A i \in 1..Len(metrics) :
              LET ns == NodesInside(i)
              IN  /\ ns = {} => metrics[i].nodes_in_bg = NaN
                  /\ ns # {} =>
                        /\ metrics[i].nodes_in_bg = Int2F(Cardinality(ns))
                        /\ metrics[i].betweenness_mean = MeanOver(btw, ns)
                        /\ metrics[i].aspl_mean = MeanOver(aspl, ns)
        /\ SumSet([i \in 1..Len(metrics) |->
                      IF IsNum(metrics[i].nodes_in_bg)
                      THEN metrics[i].nodes_in_bg.n ELSE 0],
                  1..Len(metrics)) <= Cardinality(G.nodes)

\* A node on the border between two block groups is counted in neither, the
\* other node in one.
C9_Witness ==
    /\ pc = "normalized"
    /\ Len(bg) = 2
    /\ \E v \in G.nodes :
          /\ G.pos[v] % 2 = 0
          /\ G.pos[v] \div 2 \in bg[1].geom.cells
          /\ G.pos[v] \div 2 + 1 \in bg[2].geom.cells
    /\ \E i \in 1..Len(metrics) : metrics[i].nodes_in_bg = Int2F(1)

\* Metres of the clipped pieces of edge e.
PieceMetres(e) ==
    LET rs == {r \in inter : r.edge = e}
    IN  FMul(FSumSet([r \in rs |-> r.len_km], rs), Int2F(MPerKm))

\* The cells of all the polygons of the layer.
CoveredCells == UNION {bg[i].geom.cells : i \in 1..Len(bg)}

Clipped == pc \in {"edges_agg", "normalized", "written"}

\* C10 (as claimed): the clipped pieces of every edge that crosses a block
\* group sum to the total length of the edge.
C10_PiecesSumToLength ==
    Clipped =>
        \A e \in G.edges :
            (\E r \in inter : r.edge = e) =>
                PieceMetres(e) = Int2F(EdgeGeomLength(G, e))

\* C10 (amended): the clipped pieces of an edge sum to the length of the part
\* of the edge that lies inside the polygons, each piece being the part
\* inside its own polygon; the sum is the total length of the edge when the
\* whole edge lies inside the polygons.
C10_PiecesSumToCoveredLength ==
    Clipped =>
        /\ \A e \in G.edges :
              /\ PieceMetres(e)
                   = Int2F(MetersPerUnit * Cardinality(UnitsIn(e, CoveredCells)))
              /\ UnitsIn(e, CoveredCells) = UnitsIn(e, Cells) =>
                    PieceMetres(e) = Int2F(EdgeGeomLength(G, e))
        /\ \A r \in inter :
              FMul(r.len_km, Int2F(MPerKm))
                = Int2F(MetersPerUnit
                        * Cardinality(UnitsIn(r.edge, bg[r.row].geom.cells)))

\* An edge crosses two block groups and lies wholly inside them.
C10_Witness ==
    /\ pc = "edges_agg"
    /\ \E e \in G.edges :
          /\ \E r1, r2 \in inter : r1.edge = e /\ r2.edge = e /\ r1.row # r2.row
          /\ PieceMetres(e) = Int2F(EdgeGeomLength(G, e))

\* ------------------------------------------------------------ mean ASPL
\* The contained nodes of row i whose ASPL is a number.
DefinedInside(i) == {v \in NodesInside(i) : IsNum(aspl[v])}

\* C11: the mean ASPL of a block group with nodes, times the number of its
\* contained nodes with a defined ASPL, is the sum of their ASPL; when none
\* of its nodes has a defined ASPL the mean is NaN (and therefore not 0).
C11_MeanOverDefined ==
    Aggregated =>
        \A i \in 1..Len(metrics) :
            LET ds == DefinedInside(i)
            IN  NodesInside(i) # {} =>
                  /\ ds = {} => metrics[i].aspl_mean = NaN
                  /\ ds # {} =>
                        /\ IsNum(metrics[i].aspl_mean)
                        /\ FEq(FMul(metrics[i].aspl_mean, Int2F(Cardinality(ds))),
                               FSumSet([v \in ds |-> aspl[v]], ds))

\* A block group holds a node with a defined and a node with an undefined
\* ASPL, another one only a node with an undefined ASPL.
C11_Witness ==
    /\ pc = "normalized"
    /\ \E i \in 1..Len(metrics) :
          /\ DefinedInside(i) # {}
          /\ DefinedInside(i) # NodesInside(i)
          /\ \E v \in DefinedInside(i) : metrics[i].aspl_mean = aspl[v]

\* Only nodes with an undefined ASPL in a block group: the mean is missing.
AllUndefinedGroup ==
    /\ pc = "normalized"
    /\ \E i \in 1..Len(metrics) :
          /\ NodesInside(i) # {}
          /\ DefinedInside(i) = {}
          /\ metrics[i].aspl_mean = NaN

\* ------------------------------------------------ degenerate block groups
\* Row i is degenerate: no contained node, no edge inside, or a geometry
\* without a positive area.
Degenerate(i) ==
    \/ NodesInside(i) = {}
    \/ EdgeMetresInside(i) = 0
    \/ bg[i].geom.kind # "poly"

\* The sequence s without its element i.
RemoveAt(s, i) == [j \in 1..(Len(s) - 1) |-> IF j < i THEN s[j] ELSE s[j + 1]]

\* Lines 111-137 on the layer polys: the table the run computes from the
\* graph, the node metrics and the layer.
RunMetrics(H, b, a, polys) ==
    MergeMetrics(polys, NodesGroupBy(sjoin(H, b, a, polys)),
                 EdgesGroupBy(overlay(H, polys)))

\* C12: once the layer is loaded the run halts on an edgeless graph only,
\* whatever degenerate rows the layer holds; and the rows of the other block
\* groups are the rows the run computes from the layer without the
\* degenerate row.
C12_DegenerateIsolated ==
    /\ (pc = "failed" /\ bg # <<>>) => diag = "graph contains no edges"
    /\ Aggregated =>
          \A i \in 1..Len(bg) :
              (Degenerate(i) /\ Len(bg) > 1) =>
                  RemoveAt(metrics, i) = RunMetrics(G, btw, aspl, RemoveAt(bg, i))

\* A row without geometry stands before a row with nodes and edges.
C12_Witness ==
    /\ pc = "written"
    /\ Len(bg) = 2
    /\ bg[1].geom.kind = "none"
    /\ Degenerate(1)
    /\ ~Degenerate(2)
    /\ IsNum(OUT_CSV.rows[2].node_density)
    /\ IsNum(OUT_CSV.rows[2].aspl_mean)

\* --------------------------------------------------------- fatal errors
\* The inputs of the run cannot be loaded: no graph file, a graph without
\* nodes, a layer without rows or without a GEOID / GEOID_BG column.
FatalInputs ==
    \/ ~GRAPHML.exists
    \/ GRAPHML.graph.nodes = {}
    \/ BG_GPKG.rows = <<>>
    \/ BG_GPKG.keycol = "none"

\* C13: with such inputs the run never gets past the loading steps, it
\* halts there with the diagnostic of the first failing load, and
\* bg_metrics.csv is not written; the file is written only by the last step,
\* from the normalized table of the loaded layer.
C13_NoOutputOnFatalInput ==
    /\ FatalInputs =>
          /\ pc \in {"start", "graph_loaded", "failed"}
          /\ ~OUT_CSV.written
          /\ pc = "failed" =>
                diag = IF ~GRAPHML.exists THEN "GraphML not found"
                       ELSE IF GRAPHML.graph.nodes = {}
                       THEN "NetworkXPointlessConcept"
                       ELSE IF BG_GPKG.rows = <<>> THEN "No BG geometries found"
                       ELSE "BG layer lacks GEOID/GEOID_BG"
    /\ pc = "failed" => ~OUT_CSV.written
    /\ OUT_CSV.written =>
          /\ pc = "written"
          /\ G = largest_component(GRAPHML.graph)
          /\ DOMAIN btw = G.nodes /\ DOMAIN aspl = G.nodes
          /\ Len(bg) = Len(BG_GPKG.rows)
          /\ metrics = RunMetrics(G, btw, aspl, bg)
          /\ OUT_CSV.rows = metrics

\* The run has halted on a layer without key column, nothing written.
C13_Witness ==
    /\ pc = "failed"
    /\ diag = "BG layer lacks GEOID/GEOID_BG"
    /\ GRAPHML.exists
    /\ ~OUT_CSV.written

\* ------------------------------------------------------------ two runs
\* The script is started again on the same input files; bg_metrics.csv of
\* the run before is still there.
Rerun ==
    /\ pc \in {"written", "failed"}
    /\ UNCHANGED otherVars
    /\ pc' = "start"
    /\ G' = NullGraph
    /\ bg' = <<>>
    /\ btw' = <<>>
    /\ aspl' = <<>>
    /\ nodes_grp' = <<>>
    /\ inter' = {}
    /\ edges_grp' = <<>>
    /\ metrics' = <<>>
    /\ diag' = ""
    /\ UNCHANGED <<GRAPHML, BG_GPKG, OUT_CSV>>

NextTwice ==
    \/ Next
    \/ Rerun

\* Runs and reruns over the graph inputs and over the block-group inputs.
SpecTwice == (Init \/ InitBG) /\ [][NextTwice]_vars

NumTracts == 2      \* tracts of the 2020 list (the 2010 list has one more)

MaxAttempts == 2    \* for attempt in range(2)
Pause1      == 7    \* time.sleep(0.7), in tenths of a second
Pause2      == 6    \* time.sleep(0.6)
TractLen    == 6    \* .str.zfill(6)

\* The tract codes 750100, 750200, ...
TractCode(k) == <<7, 5, 0, k, 0, 0>>

tracts_2020 == [k \in 1..NumTracts |-> TractCode(k)]
tracts_2010 == [k \in 1..(NumTracts + 1) |-> TractCode(k)]

\* The tract list the current loop runs over; the list of deliverable2 is
\* the 2020 list.
Tracts(script, c) ==
    IF script = "deliverable1" /\ c = 2 THEN tracts_2010 ELSE tracts_2020

\* What a request can end in: status 200 with the rows of the tract, another
\* status, or an exception of requests.get (time-out, connection error).
Outcomes == {"200", "non200", "raise"}

BlockGroups == {1, 2}

\* The block-group records the API returns for a tract: the block groups of
\* the tract with their counts (block group 2 of the second tract has no
\* inhabitants).
CensusRows(c, code) ==
    [b \in 1..Cardinality(BlockGroups) |->
        LET pop == IF code[4] = 2 /\ b = 2 THEN 0 ELSE 10 * code[4] + 20 * b + c
        IN  [tract |-> code, block_group |-> <<b>>,
             pop |-> Int2F(pop), white |-> Int2F(pop \div 4)]]

RECURSIVE zfillTo(_, _)
\* s.zfill(w)
zfillTo(s, w) == IF Len(s) >= w THEN s ELSE zfillTo(<<0>> \o s, w)

\* round(2) of a float: to the nearest hundredth, a tie to the even one.
Round2(x) ==
    IF ~IsNum(x) THEN x
    ELSE LET N   == x.n * 100
             y   == N \div x.d
             rem == N - y * x.d
         IN  IF 2 * rem > x.d THEN Num(y + 1, 100)
             ELSE IF 2 * rem < x.d THEN Num(y, 100)
             ELSE Num(y + (y % 2), 100)

\* Variant: a table is never taken for empty.
NeverEmpty(tbl) == FALSE

\* df.empty / "not frames"
IsEmpty(tbl) == Len(tbl) = 0

\* pd.concat(frames, ignore_index=True), then TRACT, BG and GEOID_BG
\* (deliverable1 lines 40-43, deliverable2 lines 50-64).
Combine(fs) ==
    LET rows == Flatten(fs)
    IN  [j \in 1..Len(rows) |->
            LET r == rows[j]
                TRACT == zfillTo(r.tract, TractLen)
            IN  [tract |-> r.tract, block_group |-> r.block_group,
                 pop |-> r.pop, white |-> r.white,
                 TRACT |-> TRACT, BG |-> r.block_group,
                 GEOID_BG |-> <<1, 7, 0, 3, 1>> \o TRACT \o r.block_group]]

\* (df["white"] / df["pop"] * 100).round(2) added to every row.
WithPct(tbl) ==
    [j \in 1..Len(tbl) |->
        [tract |-> tbl[j].tract, block_group |-> tbl[j].block_group,
         pop |-> tbl[j].pop, white |-> tbl[j].white,
         TRACT |-> tbl[j].TRACT, BG |-> tbl[j].BG, GEOID_BG |-> tbl[j].GEOID_BG,
         white_pct |-> Round2(FMul(FDiv(tbl[j].white, tbl[j].pop), Int2F(100)))]]

\* pct_change(new, old) of deliverable1 (lines 99-104): None when old is 0.
pct_change(new, old) ==
    IF IsNum(old) /\ old.n = 0 THEN NaN
    ELSE Round2(FMul(FDiv(FSub(new, old), old), Int2F(100)))

\* pd.merge(df10[keep10], df20[keep20], on=["TRACT","BG"], how="outer") with
\* the change columns (lines 96-109); the rows come in key order.
Comparison(df10, df20) ==
    LET Key(r)  == r.TRACT \o r.BG
        keys    == SortKeys({Key(df10[j]) : j \in 1..Len(df10)}
                            \cup {Key(df20[j]) : j \in 1..Len(df20)})
        Pop(tbl, key) ==
            LET hits == {j \in 1..Len(tbl) : Key(tbl[j]) = key}
            IN  IF hits = {} THEN NaN ELSE tbl[Min(hits)].pop
    IN  [j \in 1..Len(keys) |->
            LET old == Pop(df10, keys[j])
                new == Pop(df20, keys[j])
            IN  [key |-> keys[j], pop10 |-> old, pop20 |-> new,
                 pop_chg |-> FSub(new, old),
                 pop_chg_pct |-> pct_change(new, old)]]

CSV_2020 == "morgan_park_ca75_2020_blockgroups.csv"
CSV_2010 == "morgan_park_ca75_2010_blockgroups.csv"
CSV_CMP  == "morgan_park_ca75_2010_2020_comparison.csv"
CSV_ACS  == "ca75_acs_blockgroups.csv"

FileNames == {CSV_2020, CSV_2010, CSV_CMP, CSV_ACS}

NoFile == [written |-> FALSE, rows |-> <<>>]

Event(ev, c, code, status, tenths) ==
    [ev |-> ev, call |-> c, tract |-> code, status |-> status, tenths |-> tenths]

\* Variant: the retry loop has no last attempt.
NeverLast(a) == FALSE

\* The attempt a is the last one of "for attempt in range(2)".
LastAttempt(a) == a + 1 >= MaxAttempts

\* The loop over the tracts goes on to the next tract, or ends.
NextTract ==
    /\ t' = t + 1
    /\ attempt' = 0
    /\ fpc' = IF t + 1 > Len(Tracts(fscript, call)) THEN "collected" ELSE "request"

\* requests.get for the current tract and the test of r.status_code
\* (deliverable1 lines 23-30, deliverable2 lines 28-31 and 38-43).  An
\* exception of requests.get is caught in deliverable2 only.
Get ==
    /\ fpc = "request"
    /\ \E o \in Outcomes :
          LET code == Tracts(fscript, call)[t]
              got  == Append(log, Event("get", call, code, o, 0))
          IN  \/ /\ o = "200"
                 /\ frames' = Append(frames, CensusRows(call, code))
                 /\ log' = got
                 /\ NextTract
              \/ /\ o = "non200"
                 /\ log' = got
                 /\ fpc' = "pause"
                 /\ UNCHANGED <<frames, t, attempt>>
              \/ /\ o = "raise"
                 /\ fscript = "deliverable1"
                 /\ log' = got
                 /\ fpc' = "aborted"
                 /\ UNCHANGED <<frames, t, attempt>>
              \/ /\ o = "raise"
                 /\ fscript = "deliverable2"
                 /\ log' = Append(got, Event("warn", call, code, o, 0))
                 /\ NextTract
                 /\ UNCHANGED frames
    /\ UNCHANGED <<fscript, call, df, files, metricsVars, joinVars, checkVars,
                   keyVars>>

\* time.sleep after a status other than 200, then the next attempt; after
\* the last attempt the warning, and the next tract (deliverable1 lines
\* 31-36, deliverable2 lines 32-34).
Sleep ==
    /\ fpc = "pause"
    /\ LET code   == Tracts(fscript, call)[t]
           tenths == IF fscript = "deliverable1" THEN Pause1 ELSE Pause2
           slept  == Append(log, Event("sleep", call, code, "", tenths))
       IN  IF LastAttempt(attempt)
           THEN /\ log' = Append(slept, Event("warn", call, code, "non200", 0))
                /\ NextTract
           ELSE /\ log' = slept
                /\ attempt' = attempt + 1
                /\ fpc' = "request"
                /\ UNCHANGED t
    /\ UNCHANGED <<fscript, call, frames, df, files, metricsVars, joinVars, checkVars,
                   keyVars>>

\* deliverable1: the end of fetch_census (lines 37-44) and the block of main
\* that follows the call (lines 59-67 for 2020, lines 81-89 for 2010).
Collect1 ==
    /\ fpc = "collected"
    /\ fscript = "deliverable1"
    /\ LET tbl == IF IsEmpty(frames) THEN <<>> ELSE Combine(frames)
           csv == IF call = 1 THEN CSV_2020 ELSE CSV_2010
       IN  /\ df' = [df EXCEPT ![call] = IF IsEmpty(tbl) THEN tbl ELSE WithPct(tbl)]
           /\ files' = IF IsEmpty(tbl) THEN files
                       ELSE [files EXCEPT ![csv] =
                                [written |-> TRUE, rows |-> WithPct(tbl)]]
    /\ frames' = <<>>
    /\ t' = 1
    /\ attempt' = 0
    /\ IF call = 1
       THEN call' = 2 /\ fpc' = "request"
       ELSE call' = call /\ fpc' = "compare"
    /\ UNCHANGED <<fscript, log, metricsVars, joinVars, checkVars,
                   keyVars>>

\* deliverable1 lines 93-112: the comparison of the two years.
Compare ==
    /\ fpc = "compare"
    /\ files' = IF ~IsEmpty(df[2]) /\ ~IsEmpty(df[1])
                THEN [files EXCEPT ![CSV_CMP] =
                         [written |-> TRUE, rows |-> Comparison(df[2], df[1])]]
                ELSE files
    /\ fpc' = "done"
    /\ UNCHANGED <<fscript, call, t, attempt, frames, df, log, metricsVars, joinVars, checkVars,
                   keyVars>>

\* deliverable2 lines 46-73: stop when nothing was returned, else combine,
\* add the rates and write the table.
Collect2 ==
    /\ fpc = "collected"
    /\ fscript = "deliverable2"
    /\ IF IsEmpty(frames)
       THEN /\ fpc' = "failed"
            /\ log' = Append(log, Event("exit", call, <<>>, "No data returned", 0))
            /\ UNCHANGED <<df, files>>
       ELSE /\ df' = [df EXCEPT ![1] = WithPct(Combine(frames))]
            /\ files' = [files EXCEPT ![CSV_ACS] =
                            [written |-> TRUE, rows |-> WithPct(Combine(frames))]]
            /\ fpc' = "done"
            /\ UNCHANGED log
    /\ UNCHANGED <<fscript, call, t, attempt, frames, metricsVars, joinVars, checkVars,
                   keyVars>>

NextFetch ==
    \/ Get
    \/ Sleep
    \/ Collect1
    \/ Compare
    \/ Collect2

\* computemetrics.py does not run.
MetricsIdle ==
    /\ pc = "idle"
    /\ GRAPHML = [exists |-> FALSE, graph |-> NullGraph]
    /\ BG_GPKG = EmptyLayer
    /\ G = NullGraph
    /\ bg = <<>>
    /\ btw = <<>>
    /\ aspl = <<>>
    /\ nodes_grp = <<>>
    /\ inter = {}
    /\ edges_grp = <<>>
    /\ metrics = <<>>
    /\ OUT_CSV = [written |-> FALSE, rows |-> <<>>]
    /\ diag = ""

\* One of the two fetch scripts starts; no output file exists.
InitFetch ==
    /\ fscript \in {"deliverable1", "deliverable2"}
    /\ fpc = "request"
    /\ call = 1
    /\ t = 1
    /\ attempt = 0
    /\ frames = <<>>
    /\ df = [c \in 1..2 |-> <<>>]
    /\ log = <<>>
    /\ files = [f \in FileNames |-> NoFile]
    /\ MetricsIdle
    /\ JoinIdle
    /\ CheckIdle
    /\ KeyIdle

SpecFetch == InitFetch /\ [][NextFetch]_vars

\* -------------------------------------------------- fetch properties
\* The positions in log of the requests of call c for the tract code.
Gets(c, code) ==
    {i \in 1..Len(log) : log[i].ev = "get" /\ log[i].call = c /\ log[i].tract = code}

\* The tract code was fetched by call c: a request of it returned 200.
Fetched(c, code) == \E i \in Gets(c, code) : log[i].status = "200"

\* The loop of call c over its tracts has ended.
LoopDone(c) ==
    /\ fscript # "none"
    /\ c < call \/ (c = call /\ fpc \in {"collected", "compare", "done", "failed"})

\* Call c has returned its table.
CallDone(c) ==
    /\ fscript # "none"
    /\ c < call \/ (c = call /\ fpc \in {"compare", "done", "failed"})

Calls == IF fscript = "deliverable1" THEN {1, 2} ELSE {1}

\* The rows the API has for the tracts call c fetched, in list order, with
\* the identifiers and the rate.
RowsOfFetched(c) ==
    LET list == SelectSeq(Tracts(fscript, c), LAMBDA code : Fetched(c, code))
    IN  WithPct(Combine([j \in 1..Len(list) |-> CensusRows(c, list[j])]))

\* C15 (as claimed): no failing fetch aborts the batch; when the loop of a
\* call has ended every tract of its list was requested, every tract that
\* was not fetched has its warning, and the table of the call holds exactly
\* the rows of the fetched tracts.
C15_FailedTractSkipped ==
    /\ fpc # "aborted"
    /\ \A c \in Calls :
          /\ LoopDone(c) =>
                \A k \in 1..Len(Tracts(fscript, c)) :
                    LET code == Tracts(fscript, c)[k]
                    IN  /\ Gets(c, code) # {}
                        /\ ~Fetched(c, code) =>
                              \E i \in 1..Len(log) :
                                  /\ log[i].ev = "warn"
                                  /\ log[i].call = c
                                  /\ log[i].tract = code
          /\ CallDone(c) => df[c] = RowsOfFetched(c)

\* The same for failures that are answers of the server, and for every
\* failure in deliverable2: what the scripts do keep.
HttpFailureSkipped ==
    (fscript = "deliverable2"
       \/ \A i \in 1..Len(log) : log[i].status # "raise")
      => C15_FailedTractSkipped

\* C16: a call requests a tract at most MaxAttempts (two) times; between two
\* requests of a tract lies the pause of the script, the earlier of the two
\* returned a status other than 200, and nothing is requested for a tract
\* after its 200.
C16_AtMostTwoRequests ==
    fscript # "none" =>
        \A c \in Calls :
            \A k \in 1..Len(Tracts(fscript, c)) :
                LET gs == Gets(c, Tracts(fscript, c)[k])
                IN  /\ Cardinality(gs) <= MaxAttempts
                    /\ \A i, j \in gs :
                          i < j =>
                            /\ log[i].status = "non200"
                            /\ \E m \in (i + 1)..(j - 1) :
                                  /\ log[m].ev = "sleep"
                                  /\ log[m].tenths =
                                       IF fscript = "deliverable1" THEN Pause1 ELSE Pause2

\* A tract was fetched at the second attempt, after the pause.
C16_Witness ==
    /\ fpc = "done"
    /\ \E i, j \in 1..Len(log) :
          /\ i + 2 = j
          /\ log[i].ev = "get" /\ log[i].status = "non200"
          /\ log[i + 1].ev = "sleep"
          /\ log[j].ev = "get" /\ log[j].status = "200"
          /\ log[j].tract = log[i].tract /\ log[j].call = log[i].call

\* Call c fetched no tract at all.
NothingFetched(c) == \A k \in 1..Len(Tracts(fscript, c)) : ~Fetched(c, Tracts(fscript, c)[k])

\* C17: a call that fetched nothing writes no table: deliverable2 stops with
\* "No data returned" and ca75_acs_blockgroups.csv unwritten; a call of
\* deliverable1 returns the empty table and leaves the CSV of its year
\* unwritten; the comparison is written only when both calls fetched a tract.
C17_NoDataNoFile ==
    /\ fscript = "deliverable2" =>
          /\ (LoopDone(1) /\ NothingFetched(1)) => ~files[CSV_ACS].written
          /\ (CallDone(1) /\ NothingFetched(1)) =>
                /\ fpc = "failed"
                /\ log[Len(log)].status = "No data returned"
          /\ files[CSV_ACS].written => ~NothingFetched(1)
    /\ fscript = "deliverable1" =>
          /\ \A c \in Calls :
                (CallDone(c) /\ NothingFetched(c)) =>
                    /\ df[c] = <<>>
                    /\ ~files[IF c = 1 THEN CSV_2020 ELSE CSV_2010].written
          /\ files[CSV_2020].written => ~NothingFetched(1)
          /\ files[CSV_2010].written => ~NothingFetched(2)
          /\ files[CSV_CMP].written => (~NothingFetched(1) /\ ~NothingFetched(2))

\* deliverable1 has ended: 2020 returned nothing, 2010 did, so only the 2010
\* table was written.
C17_Witness ==
    /\ fscript = "deliverable1"
    /\ fpc = "done"
    /\ NothingFetched(1)
    /\ ~NothingFetched(2)
    /\ ~files[CSV_2020].written
    /\ files[CSV_2010].written
    /\ ~files[CSV_CMP].written

\* deliverable2 has stopped without data.
NoDataReturned ==
    /\ fscript = "deliverable2"
    /\ fpc = "failed"
    /\ ~files[CSV_ACS].written

\* ========================================================== join scripts
\* aggregatetobg.py (ACS table left-merged with bg_metrics.csv) and
\* HW4/deliverable3.py (block-group shapes inner-merged with the ACS table).
\* A table is [cols, rows]: the set of its column names and the sequence of
\* its rows, a row being a function from the column names to the values.  A
\* cell of a count or rate column is a number or NaN (an empty cell).

MaxRows == 2        \* rows of the ACS table

RawCols ==
    {"pop", "white", "black", "asian", "owner", "renter", "hisp_tot", "hisp",
     "units", "vac_units", "units_denom", "u_20_49", "u_50p"}

\* The rate columns in the order the script goes through them.
RateCols(script) ==
    IF script = "aggregatetobg"
    THEN <<"owner_pct", "vac_rate", "black_pct", "hisp_pct", "u_20plus_pct">>
    ELSE <<"white_pct", "black_pct", "asian_pct", "owner_pct", "hisp_pct",
           "vac_rate", "u_20plus_pct">>

AllRates ==
    {"white_pct", "black_pct", "asian_pct", "owner_pct", "hisp_pct", "vac_rate",
     "u_20plus_pct"}

\* The columns a rate is computed from.
Deps(f) ==
    CASE f = "white_pct"    -> {"white", "pop"}
      [] f = "black_pct"    -> {"black", "pop"}
      [] f = "asian_pct"    -> {"asian", "pop"}
      [] f = "owner_pct"    -> {"owner", "renter"}
      [] f = "hisp_pct"     -> {"hisp", "hisp_tot"}
      [] f = "vac_rate"     -> {"vac_units", "units"}
      [] f = "u_20plus_pct" -> {"u_20_49", "u_50p", "units_denom"}

\* The cell of column c in row r; NaN when the table has no such column
\* (the empty Series of g.get(c, pd.Series(dtype="float64")) after alignment).
Cell(r, c) == IF c \in DOMAIN r THEN r[c] ELSE NaN

\* Numerator and denominator of rate f in row r.
Numer(r, f) ==
    CASE f = "white_pct"    -> Cell(r, "white")
      [] f = "black_pct"    -> Cell(r, "black")
      [] f = "asian_pct"    -> Cell(r, "asian")
      [] f = "owner_pct"    -> Cell(r, "owner")
      [] f = "hisp_pct"     -> Cell(r, "hisp")
      [] f = "vac_rate"     -> Cell(r, "vac_units")
      [] f = "u_20plus_pct" -> FAdd(Cell(r, "u_20_49"), Cell(r, "u_50p"))

Denom(r, f) ==
    CASE f = "white_pct"    -> Cell(r, "pop")
      [] f = "black_pct"    -> Cell(r, "pop")
      [] f = "asian_pct"    -> Cell(r, "pop")
      [] f = "owner_pct"    -> FAdd(Cell(r, "owner"), Cell(r, "renter"))
      [] f = "hisp_pct"     -> Cell(r, "hisp_tot")
      [] f = "vac_rate"     -> Cell(r, "units")
      [] f = "u_20plus_pct" -> Cell(r, "units_denom")

\* n / d of two Series cells, of either sign: no exception, x/0 is infinite
\* (NaN for 0/0), NaN propagates.
SeriesDiv(n, d) ==
    IF IsNaN(n) \/ IsNaN(d) THEN NaN
    ELSE IF d.k = "inf" THEN (IF n.k = "inf" THEN NaN ELSE Int2F(0))
    ELSE IF d.n = 0 THEN (IF IsNum(n) /\ n.n = 0 THEN NaN ELSE Inf)
    ELSE IF n.k = "inf" THEN Inf
    ELSE IF d.n > 0 THEN Num(n.n * d.d, n.d * d.n)
    ELSE Num(-(n.n * d.d), n.d * (-d.n))

\* Variant: the rate without the mask.
RateUnmasked(n, d) == Round2(FMul(SeriesDiv(n, d), Int2F(100)))

\* pct(n, d) of aggregatetobg (lines 45-49).
pct(n, d) ==
    LET out == FMul(SeriesDiv(n, d), Int2F(100))
    IN  IF (IsNum(d) /\ d.n <= 0) \/ IsNaN(d) \/ IsNaN(n) THEN NaN
        ELSE Round2(out)

\* safe_rate(num, den) of deliverable3 (lines 95-98).
safe_rate(num, den) ==
    LET out == FMul(SeriesDiv(num, den), Int2F(100))
    IN  IF (IsNum(den) /\ den.n = 0) \/ IsNaN(den) \/ IsNaN(num) THEN NaN
        ELSE Round2(out)

\* pd.to_numeric(df.get(f), errors="coerce").notna().sum() == 0
AllMissing(tbl, f) == \A j \in 1..Len(tbl.rows) : IsNaN(tbl.rows[j][f])

\* The table with column f set to vals[j] in row j.
SetColumn(tbl, f, vals) ==
    [cols |-> tbl.cols \cup {f},
     rows |-> [j \in 1..Len(tbl.rows) |->
                 [c \in tbl.cols \cup {f} |->
                     IF c = f THEN vals[j] ELSE tbl.rows[j][c]]]]

\* One "if" block of aggregatetobg (lines 51-72) for the rate f.
RecomputeAgg(tbl, f) ==
    IF (f \notin tbl.cols \/ AllMissing(tbl, f)) /\ Deps(f) \subseteq tbl.cols
    THEN SetColumn(tbl, f, [j \in 1..Len(tbl.rows) |->
                               pct(Numer(tbl.rows[j], f), Denom(tbl.rows[j], f))])
    ELSE tbl

\* needs_compute(df, field, deps) of deliverable3 (lines 161-163):
\* "A or (B and C)".
needs_compute(tbl, f) ==
    \/ f \notin tbl.cols
    \/ (AllMissing(tbl, f) /\ Deps(f) \subseteq tbl.cols)

\* The rates deliverable3 computes from g[...] (a missing column raises
\* KeyError); the other three use g.get(..., empty Series).
Indexed == {"white_pct", "black_pct", "asian_pct", "owner_pct"}

RECURSIVE RecomputeFrom(_, _, _, _)
\* The blocks of the rates fs[i..] in turn; the result is [ok, tbl], ok
\* FALSE when a block has raised KeyError (tbl is the table reached by then).
RecomputeFrom(script, fs, i, tbl) ==
    IF i > Len(fs) THEN [ok |-> TRUE, tbl |-> tbl]
    ELSE IF script = "aggregatetobg"
    THEN RecomputeFrom(script, fs, i + 1, RecomputeAgg(tbl, fs[i]))
    ELSE IF ~needs_compute(tbl, fs[i])
    THEN RecomputeFrom(script, fs, i + 1, tbl)
    ELSE IF fs[i] \in Indexed /\ ~(Deps(fs[i]) \subseteq tbl.cols)
    THEN [ok |-> FALSE, tbl |-> tbl]
    ELSE RecomputeFrom(script, fs, i + 1,
             SetColumn(tbl, fs[i],
                 [j \in 1..Len(tbl.rows) |->
                     safe_rate(Numer(tbl.rows[j], fs[i]),
                               Denom(tbl.rows[j], fs[i]))]))

\* .str.replace(r"\.0$", "", regex=True): the character "." is written 11.
StripDotZero(s) ==
    IF Len(s) >= 2 /\ s[Len(s) - 1] = 11 /\ s[Len(s)] = 0
    THEN SubSeq(s, 1, Len(s) - 2) ELSE s

\* The key of a table as the script normalizes it (aggregatetobg lines
\* 28-29; deliverable3 lines 37, 42).
JoinKey(script, key) ==
    IF script = "aggregatetobg" THEN NormalizeKey(key)
    ELSE zfill(StripDotZero(key))

\* The table with its GEOID_BG column made from column src.
WithKey(script, tbl, src) ==
    SetColumn(tbl, "GEOID_BG",
              [j \in 1..Len(tbl.rows) |-> JoinKey(script, tbl.rows[j][src])])

COUNTYFP == <<0, 3, 1>>

\* bg["COUNTYFP"] == COUNTYFP
InCounty(r) == r["COUNTYFP"] = COUNTYFP

\* bg[bg["COUNTYFP"] == COUNTYFP]: the rows of Cook County.
CountyRows(tbl) ==
    [cols |-> tbl.cols, rows |-> SelectSeq(tbl.rows, InCounty)]

\* The other table as the script reads it: bg_metrics.csv with its key
\* normalized (aggregatetobg lines 24-29); the block-group shapes of Cook
\* County with the key made from GEOID (deliverable3 lines 115-121, 36-37).
ReadOther(script, tbl) ==
    IF script = "aggregatetobg" THEN WithKey(script, tbl, "GEOID_BG")
    ELSE WithKey(script, CountyRows(tbl), "GEOID")

\* The row of a merge: the cells of l, and those of r in the other columns
\* (NaN when there is no r).
MergedRow(cols, l, r) ==
    [c \in cols |-> IF c \in DOMAIN l THEN l[c]
                    ELSE IF c \in DOMAIN r THEN r[c] ELSE NaN]

\* L.merge(Rt, on="GEOID_BG", how="inner"): per row of L one row for every
\* row of Rt with its key.
MergeInner(L, Rt) ==
    LET cols == L.cols \cup Rt.cols
        RowsOf(l) ==
            LET ms == SelectSeq(Rt.rows, LAMBDA r : r["GEOID_BG"] = l["GEOID_BG"])
            IN  [j \in 1..Len(ms) |-> MergedRow(cols, l, ms[j])]
    IN  [cols |-> cols,
         rows |-> Flatten([j \in 1..Len(L.rows) |-> RowsOf(L.rows[j])])]

\* Variant: the rows without a match are dropped.
DropUnmatched(L, Rt) == MergeInner(L, Rt)

\* L.merge(Rt, on="GEOID_BG", how="left"): as above, and a row of L without
\* a match is kept once, with NaN in the columns of Rt.
MergeLeft(L, Rt) ==
    LET cols == L.cols \cup Rt.cols
        RowsOf(l) ==
            LET ms == SelectSeq(Rt.rows, LAMBDA r : r["GEOID_BG"] = l["GEOID_BG"])
            IN  IF ms = <<>> THEN <<MergedRow(cols, l, <<>>)>>
                ELSE [j \in 1..Len(ms) |-> MergedRow(cols, l, ms[j])]
    IN  [cols |-> cols,
         rows |-> Flatten([j \in 1..Len(L.rows) |-> RowsOf(L.rows[j])])]

\* g.drop(columns=[...]) for the columns present.
DropCols(tbl, S) ==
    [cols |-> tbl.cols \ S,
     rows |-> [j \in 1..Len(tbl.rows) |-> [c \in tbl.cols \ S |-> tbl.rows[j][c]]]]

\* Lines 21-42 of aggregatetobg, lines 100-124 of deliverable3: the ACS table
\* is read and its key normalized.
JRead ==
    /\ jpc = "start"
    /\ acs' = WithKey(jscript, ACS_CSV, "GEOID_BG")
    /\ jpc' = "read"
    /\ UNCHANGED <<jscript, ACS_CSV, METRICS, joined, JOINED, jdiag, metricsVars,
                   fetchVars, checkVars,
                   keyVars>>

\* The rate blocks: aggregatetobg lines 51-72 on acs, deliverable3 lines
\* 155-181 on g.
JRates ==
    \/ /\ jscript = "aggregatetobg"
       /\ jpc = "read"
       /\ acs' = RecomputeFrom(jscript, RateCols(jscript), 1, acs).tbl
       /\ jpc' = "rates"
       /\ UNCHANGED <<joined, jdiag>>
       /\ UNCHANGED <<jscript, ACS_CSV, METRICS, JOINED, metricsVars, fetchVars, checkVars,
                   keyVars>>
    \/ /\ jscript = "deliverable3"
       /\ jpc = "merged"
       /\ LET res == RecomputeFrom(jscript, RateCols(jscript), 1, joined)
          IN  /\ joined' = res.tbl
              /\ jpc' = IF res.ok THEN "rates" ELSE "failed"
              /\ jdiag' = IF res.ok THEN jdiag ELSE "KeyError"
       /\ UNCHANGED acs
       /\ UNCHANGED <<jscript, ACS_CSV, METRICS, JOINED, metricsVars, fetchVars, checkVars,
                   keyVars>>

\* The merge: aggregatetobg line 75 (ACS rows kept), deliverable3 line 151
\* (shapes with an ACS row).
JMerge ==
    \/ /\ jscript = "aggregatetobg"
       /\ jpc = "rates"
       /\ joined' = MergeLeft(acs, ReadOther(jscript, METRICS))
       /\ jpc' = "merged"
       /\ UNCHANGED <<jscript, ACS_CSV, METRICS, acs, JOINED, jdiag, metricsVars,
                      fetchVars, checkVars,
                   keyVars>>
    \/ /\ jscript = "deliverable3"
       /\ jpc = "read"
       /\ joined' = MergeInner(ReadOther(jscript, METRICS), acs)
       /\ jpc' = "merged"
       /\ UNCHANGED <<jscript, ACS_CSV, METRICS, acs, JOINED, jdiag, metricsVars,
                      fetchVars, checkVars,
                   keyVars>>

\* The output: bg_joined.csv (aggregatetobg line 87); the layer ca75_bg_acs
\* without the TRACT and BG columns (deliverable3 lines 191-200).
JWrite ==
    \/ /\ jscript = "aggregatetobg"
       /\ jpc = "merged"
       /\ JOINED' = [written |-> TRUE, table |-> joined]
       /\ jpc' = "written"
       /\ UNCHANGED <<jscript, ACS_CSV, METRICS, acs, joined, jdiag, metricsVars,
                      fetchVars, checkVars,
                   keyVars>>
    \/ /\ jscript = "deliverable3"
       /\ jpc = "rates"
       /\ JOINED' = [written |-> TRUE, table |-> DropCols(joined, {"TRACT", "BG"})]
       /\ jpc' = "written"
       /\ UNCHANGED <<jscript, ACS_CSV, METRICS, acs, joined, jdiag, metricsVars,
                      fetchVars, checkVars,
                   keyVars>>

NextJoin ==
    \/ JRead
    \/ JRates
    \/ JMerge
    \/ JWrite

\* ------------------------------------------------------------ join inputs
NumerCols == {"white", "black", "asian", "owner", "hisp", "vac_units", "u_20_49", "u_50p"}

\* The counts of a row: a numerator columns' value and a denominator
\* columns' value.
NumerVals == <<NaN, Int2F(3)>>
DenomVals == <<NaN, Int2F(-3), Int2F(0), Int2F(7)>>

\* The pairs of counts, in some fixed order.
CountPairs ==
    [k \in 1..(Len(NumerVals) * Len(DenomVals)) |->
        <<NumerVals[((k - 1) \div Len(DenomVals)) + 1],
          DenomVals[((k - 1) % Len(DenomVals)) + 1]>>]

\* The tables of m rows of counts, one for each choice of m pairs: a rate is
\* computed row by row, so every choice is taken in one order of the rows.
Profiles(m) ==
    LET Ascending == {g \in [1..m -> 1..Len(CountPairs)] :
                        \A i \in 1..m : i = m \/ g[i] <= g[i + 1]}
    IN  {[j \in 1..m |-> CountPairs[g[j]]] : g \in Ascending}

\* The key of ACS row j: 12 digits, with the prefix of the long GEOID, or
\* with the ".0" of a key that went through a float.
AcsKey(form, j) ==
    CASE form = "plain"   -> BGKey(j)
      [] form = "long"    -> LongKey(j)
      [] form = "dotzero" -> BGKey(j) \o <<11, 0>>

\* The rate columns of the file: absent, empty, or with a value (12.5) in
\* the first row only.
RateStates == {"absent", "empty", "part"}

\* The ACS file with the rows prof (pairs of a numerator and a denominator
\* value), without the raw columns drop.
AcsTable(form, rates, drop, prof) ==
    LET cols == {"GEOID_BG", "TRACT", "BG"} \cup (RawCols \ drop)
                \cup (IF rates = "absent" THEN {} ELSE AllRates)
    IN  [cols |-> cols,
         rows |-> [j \in 1..Len(prof) |->
                     [c \in cols |->
                        CASE c = "GEOID_BG" -> AcsKey(form, j)
                          [] c = "TRACT"    -> TractCode(1)
                          [] c = "BG"       -> <<j>>
                          [] c \in NumerCols -> prof[j][1]
                          [] c \in RawCols \ NumerCols -> prof[j][2]
                          [] OTHER -> IF rates = "part" /\ j = 1 THEN Num(25, 2)
                                      ELSE NaN]]]

MetricCols ==
    {"area_km2", "nodes_in_bg", "edges_km", "node_density", "edge_km_density",
     "betweenness_mean", "betweenness_p90", "aspl_mean"}

\* bg_metrics.csv with the block groups K (in the descending order of the
\* layer); the key comes back from the file as the digits of an integer.
MetricsTable(K) ==
    LET ks == SetToSeq(K)
    IN  [cols |-> {"GEOID_BG"} \cup MetricCols,
         rows |-> [j \in 1..Len(ks) |->
                     LET i == ks[Len(ks) + 1 - j]
                     IN  [c \in {"GEOID_BG"} \cup MetricCols |->
                            IF c = "GEOID_BG" THEN BGKey(i)
                            ELSE IF c = "aspl_mean" /\ i % 2 = 0 THEN NaN
                            ELSE Int2F(i)]]]

\* The shapefile: the block groups K of Cook County and one block group of
\* another county.
ShapeTable(K) ==
    LET ks == SetToSeq(K)
    IN  [cols |-> {"GEOID", "COUNTYFP", "geometry"},
         rows |-> [j \in 1..(Len(ks) + 1) |->
                     [c \in {"GEOID", "COUNTYFP", "geometry"} |->
                        IF j > Len(ks)
                        THEN (CASE c = "GEOID" -> <<1, 7, 0, 4, 3, 8, 4, 0, 1, 0, 0, 1>>
                                [] c = "COUNTYFP" -> <<0, 4, 3>>
                                [] OTHER -> [k |-> "geom", n |-> 0, d |-> 1])
                        ELSE (CASE c = "GEOID" -> BGKey(ks[j])
                                [] c = "COUNTYFP" -> COUNTYFP
                                [] OTHER -> [k |-> "geom", n |-> ks[j], d |-> 1])]]]

OtherTable(script, K) ==
    IF script = "aggregatetobg" THEN MetricsTable(K) ELSE ShapeTable(K)

\* The raw columns that are not in the file: none, one of them, or all.
Drops == {{}} \cup {{c} : c \in RawCols} \cup {RawCols}

\* A join script starts.  Rate inputs: every state of the rate columns, every
\* drop, every choice of at most MaxRows rows of counts; merge inputs: every
\* form of the key and every set of block groups in the other table.
InitJoin ==
    /\ jscript \in {"aggregatetobg", "deliverable3"}
    /\ jpc = "start"
    /\ \/ /\ \E rates \in RateStates, drop \in Drops, m \in 0..MaxRows :
                \E prof \in Profiles(m) :
                    ACS_CSV = AcsTable("plain", rates, drop, prof)
          /\ METRICS = OtherTable(jscript, 1..MaxRows)
       \/ /\ \E form \in {"plain", "long", "dotzero"}, m \in 1..MaxRows :
                ACS_CSV = AcsTable(form, "part", {},
                                   [j \in 1..m |-> <<Int2F(3), Int2F(7)>>])
          /\ \E K \in SUBSET (1..MaxRows) : METRICS = OtherTable(jscript, K)
    /\ acs = NoTable
    /\ joined = NoTable
    /\ JOINED = [written |-> FALSE, table |-> NoTable]
    /\ jdiag = ""
    /\ MetricsIdle
    /\ FetchIdle
    /\ CheckIdle
    /\ KeyIdle

SpecJoin == InitJoin /\ [][NextJoin]_vars

\* ------------------------------------------------------- join properties
\* The table the rate blocks start from, as the inputs determine it.
BeforeRates ==
    IF jscript = "aggregatetobg" THEN WithKey(jscript, ACS_CSV, "GEOID_BG")
    ELSE MergeInner(ReadOther(jscript, METRICS), WithKey(jscript, ACS_CSV, "GEOID_BG"))

\* The table the rate blocks have left.
AfterRates == IF jscript = "aggregatetobg" THEN acs ELSE joined

\* The rate blocks have run to their end.
RatesDone ==
    \/ jpc = "rates"
    \/ jpc = "written"
    \/ (jscript = "aggregatetobg" /\ jpc = "merged")

RatesOf(script) == {RateCols(script)[i] : i \in 1..Len(RateCols(script))}

\* Column f of the table has a value in some row.
Filled(tbl, f) == f \in tbl.cols /\ ~AllMissing(tbl, f)

\* Column f is the same in both tables: absent in both, or equal row by row.
SameColumn(a, b, f) ==
    /\ (f \in a.cols) = (f \in b.cols)
    /\ Len(a.rows) = Len(b.rows)
    /\ f \in a.cols => \A j \in 1..Len(a.rows) : a.rows[j][f] = b.rows[j][f]

\* The rate the script computes for row r.
RateOf(script, r, f) ==
    IF script = "aggregatetobg" THEN pct(Numer(r, f), Denom(r, f))
    ELSE safe_rate(Numer(r, f), Denom(r, f))

\* C18 (as claimed): the rate blocks raise no exception; a rate column with
\* a value in some row is left as it is; a column that is absent or empty is
\* computed from its dependency columns when they all exist, and is left as
\* it is (absent or empty) when they do not.
C18_RateRecomputedOnlyIfEmpty ==
    /\ jdiag # "KeyError"
    /\ RatesDone =>
          \A f \in RatesOf(jscript) :
              LET before == BeforeRates
                  after  == AfterRates
              IN  IF Filled(before, f) \/ ~(Deps(f) \subseteq before.cols)
                  THEN SameColumn(before, after, f)
                  ELSE /\ f \in after.cols
                       /\ Len(after.rows) = Len(before.rows)
                       /\ \A j \in 1..Len(before.rows) :
                             after.rows[j][f] = RateOf(jscript, before.rows[j], f)

\* aggregatetobg keeps to this.
RatesKeptInAggregate == jscript = "aggregatetobg" => C18_RateRecomputedOnlyIfEmpty

\* Column f was computed by its rate block.
Recomputed(f) ==
    /\ RatesDone
    /\ f \in RatesOf(jscript)
    /\ ~Filled(BeforeRates, f)
    /\ IF jscript = "aggregatetobg" THEN Deps(f) \subseteq BeforeRates.cols
       ELSE needs_compute(BeforeRates, f)

\* v is 100 * n / d rounded to hundredths (d a number other than 0).
IsRate(v, n, d) ==
    LET P == 100 * n.n * d.d * (IF d.n > 0 THEN 1 ELSE -1)
        Q == n.d * Abs(d.n)
    IN  /\ IsNum(v)
        /\ 100 % v.d = 0
        /\ 200 * Abs(v.n * Q - P * v.d) <= v.d * Q

\* C19 (as claimed): a computed rate is missing when its denominator is 0 or
\* missing or its numerator is missing; in every other row it is
\* 100 * numerator / denominator rounded to 2 decimals; it is never infinite.
C19_RateMissingOrRounded ==
    \A f \in AllRates :
        Recomputed(f) =>
            \A j \in 1..Len(BeforeRates.rows) :
                LET n == Numer(BeforeRates.rows[j], f)
                    d == Denom(BeforeRates.rows[j], f)
                    v == AfterRates.rows[j][f]
                IN  /\ v.k # "inf"
                    /\ IF IsNaN(n) \/ IsNaN(d) \/ d.n = 0 THEN v = NaN
                       ELSE IsRate(v, n, d)

\* C19 (amended): as claimed, except that pct of aggregatetobg also gives a
\* missing value when the denominator is negative (safe_rate of deliverable3
\* computes the negative rate).
C19_RateMaskedOrRounded ==
    \A f \in AllRates :
        Recomputed(f) =>
            \A j \in 1..Len(BeforeRates.rows) :
                LET n == Numer(BeforeRates.rows[j], f)
                    d == Denom(BeforeRates.rows[j], f)
                    v == AfterRates.rows[j][f]
                IN  /\ v.k # "inf"
                    /\ IF IsNaN(n) \/ IsNaN(d) \/ d.n = 0 THEN v = NaN
                       ELSE IF jscript = "aggregatetobg" /\ d.n < 0 THEN v = NaN
                       ELSE IsRate(v, n, d)

\* aggregatetobg has computed black_pct: missing in a row without
\* inhabitants, 42.86 in a row with 3 of 7.
C19_Witness ==
    /\ jscript = "aggregatetobg"
    /\ jpc = "rates"
    /\ Recomputed("black_pct")
    /\ \E i, j \in 1..Len(acs.rows) :
          /\ acs.rows[i]["pop"] = Int2F(0)
          /\ acs.rows[i]["black"] = Int2F(3)
          /\ acs.rows[i]["black_pct"] = NaN
          /\ acs.rows[j]["pop"] = Int2F(7)
          /\ acs.rows[j]["black_pct"] = Num(4286, 100)

\* The keys of bg_metrics.csv as aggregatetobg normalizes them.
MetricKeys ==
    {NormalizeKey(METRICS.rows[i]["GEOID_BG"]) : i \in 1..Len(METRICS.rows)}

\* C20: bg_joined.csv has every column of the ACS file and, for every ACS
\* row, a row with the cells of that row; an ACS row whose key is not in
\* bg_metrics.csv is there once, with NaN in every metric column.
C20_AcsRowsKept ==
    (jscript = "aggregatetobg" /\ jpc \in {"merged", "written"}) =>
        /\ ACS_CSV.cols \subseteq joined.cols
        /\ MetricCols \subseteq joined.cols
        /\ \A j \in 1..Len(acs.rows) :
              LET same == {i \in 1..Len(joined.rows) :
                             \A c \in acs.cols : joined.rows[i][c] = acs.rows[j][c]}
              IN  /\ same # {}
                  /\ acs.rows[j]["GEOID_BG"] \notin MetricKeys =>
                        /\ Cardinality(same) = 1
                        /\ \A i \in same : \A c \in MetricCols :
                              joined.rows[i][c] = NaN
        /\ jpc = "written" => (JOINED.written /\ JOINED.table = joined)

\* bg_joined.csv is written: one ACS row has its metrics, another one, not
\* in bg_metrics.csv, has none.
C20_Witness ==
    /\ jscript = "aggregatetobg"
    /\ jpc = "written"
    /\ \E i, j \in 1..Len(JOINED.table.rows) :
          /\ JOINED.table.rows[i]["GEOID_BG"] \in MetricKeys
          /\ IsNum(JOINED.table.rows[i]["area_km2"])
          /\ JOINED.table.rows[j]["GEOID_BG"] \notin MetricKeys
          /\ JOINED.table.rows[j]["area_km2"] = NaN
          /\ IsNum(JOINED.table.rows[j]["pop"])

\* ============================================================ checkinputs
\* checkinputs.py validates the ACS table and its overlap with the block-group
\* geometry.  A table is [cols, rows] as in the join scripts; the cells of the
\* rate columns are numbers, NaN (an empty cell), Inf or Text.
need_cols_core ==
    {"GEOID_BG", "pop", "white", "black", "asian", "owner", "renter",
     "hisp_tot", "hisp", "units", "vac_units", "units_denom", "u_20_49",
     "u_50p", "black_pct", "owner_pct", "asian_pct", "hisp_pct", "vac_rate",
     "u_20plus_pct"}

optional_id_cols == {"TRACT", "BG"}

rate_fields ==
    <<"black_pct", "owner_pct", "asian_pct", "hisp_pct", "vac_rate",
      "u_20plus_pct">>

\* A cell whose text is not a number.
Text == [k |-> "text", n |-> 0, d |-> 1]

\* pd.to_numeric(x, errors="coerce")
to_numeric(x) == IF x.k = "text" THEN NaN ELSE x

\* The limits of line 76: -0.01 and 100.01.
RateLo == Num(-1, 100)
RateHi == Num(10001, 100)

\* Variant: only the upper limit is tested.
AboveOnly(v) == v.k = "inf" \/ FLt(RateHi, v)

\* df[c].notna() & ((df[c] < -0.01) | (df[c] > 100.01))
OutOfRange(v) == ~IsNaN(v) /\ (FLt(v, RateLo) \/ v.k = "inf" \/ FLt(RateHi, v))

\* fail(msg): print the [FAIL] line after the lines this step has printed
\* before it, and sys.exit(1).
fail(lines) ==
    /\ printed' = printed \o lines \o <<"[FAIL]">>
    /\ cexit' = 1
    /\ cpc' = "exited"

\* The step goes on to position next after printing lines.
GoOn(next, lines) ==
    /\ printed' = printed \o lines
    /\ cpc' = next
    /\ UNCHANGED cexit

\* The column GEOID_BG of a table, in row order.
KeyColumn(tbl) == [j \in 1..Len(tbl.rows) |-> tbl.rows[j]["GEOID_BG"]]

\* Lines 47-55: GEOID_BG normalized, TRACT and BG derived when missing.
WithIds(tbl) ==
    LET cols == tbl.cols \cup optional_id_cols
    IN  [cols |-> cols,
         rows |-> [j \in 1..Len(tbl.rows) |->
                     LET key == NormalizeKey(tbl.rows[j]["GEOID_BG"])
                     IN  [c \in cols |->
                            IF c = "GEOID_BG" THEN key
                            ELSE IF c \in tbl.cols THEN tbl.rows[j][c]
                            ELSE IF c = "TRACT" THEN SubSeq(key, 6, 11)
                            ELSE SubSeq(key, Len(key), Len(key))]]]

\* df["GEOID_BG"].duplicated().sum() > 0
duplicated(keys) == \E i, j \in 1..Len(keys) : i < j /\ keys[i] = keys[j]

\* Lines 68-69: the rate columns coerced to numbers.
WithNumericRates(tbl) ==
    [cols |-> tbl.cols,
     rows |-> [j \in 1..Len(tbl.rows) |->
                 [c \in tbl.cols |->
                     IF \E k \in 1..Len(rate_fields) : rate_fields[k] = c
                     THEN to_numeric(tbl.rows[j][c]) ELSE tbl.rows[j][c]]]]

\* Lines 75-78: some rate field has a value out of range.
BadRates(tbl) ==
    \E k \in 1..Len(rate_fields), j \in 1..Len(tbl.rows) :
        OutOfRange(tbl.rows[j][rate_fields[k]])

\* Lines 91-109: a spatial file is read (geom_found), and the number of
\* "[WARN] Could not read" lines on the way.
geom_found ==
    \/ SPATIAL.gpkg \in {"layer", "single"}
    \/ (SPATIAL.gpkg = "missing" /\ SPATIAL.geojson = "ok")

ReadWarnings ==
    IF \/ SPATIAL.gpkg = "unreadable"
       \/ (SPATIAL.gpkg = "missing" /\ SPATIAL.geojson = "unreadable")
    THEN <<"[WARN]">> ELSE <<>>

\* Lines 116-122: the keys of the geometry, and those it shares with df.
GeometryKeys ==
    IF SPATIAL.keycol = "GEOID" THEN {NormalizeKey(k) : k \in SPATIAL.keys}
    ELSE SPATIAL.keys

common(tbl) == {tbl.rows[j]["GEOID_BG"] : j \in 1..Len(tbl.rows)} \cap GeometryKeys

\* Lines 23-25.
CsvExists ==
    /\ cpc = "start"
    /\ ran' = Append(ran, "csv_exists")
    /\ IF CHECK_CSV.state = "missing" THEN fail(<<>>) ELSE GoOn("exists", <<>>)
    /\ UNCHANGED <<CHECK_CSV, gpd, SPATIAL, cdf, metricsVars, fetchVars, joinVars,
                   keyVars>>

\* Lines 27-44: pd.read_csv raises on a file it cannot parse (the traceback
\* ends the process with exit code 1); otherwise the required columns.
RequiredColumns ==
    /\ cpc = "exists"
    /\ IF CHECK_CSV.state = "unreadable"
       THEN /\ cexit' = 1
            /\ cpc' = "exited"
            /\ UNCHANGED <<cdf, ran, printed>>
       ELSE /\ cdf' = [cols |-> CHECK_CSV.cols, rows |-> CHECK_CSV.rows]
            /\ ran' = Append(ran, "columns")
            /\ IF need_cols_core \subseteq CHECK_CSV.cols
               THEN GoOn("columns", <<>>) ELSE fail(<<>>)
    /\ UNCHANGED <<CHECK_CSV, gpd, SPATIAL, metricsVars, fetchVars, joinVars,
                   keyVars>>

\* Lines 46-59: normalize the key, derive TRACT and BG, test for duplicates.
Duplicates ==
    /\ cpc = "columns"
    /\ cdf' = WithIds(cdf)
    /\ ran' = Append(ran, "duplicates")
    /\ LET info == (IF "TRACT" \in cdf.cols THEN <<>> ELSE <<"[INFO]">>)
                   \o (IF "BG" \in cdf.cols THEN <<>> ELSE <<"[INFO]">>)
       IN  IF duplicated(KeyColumn(WithIds(cdf)))
           THEN fail(info) ELSE GoOn("unique", info)
    /\ UNCHANGED <<CHECK_CSV, gpd, SPATIAL, metricsVars, fetchVars, joinVars,
                   keyVars>>

\* Lines 61-64.
KeyLength ==
    /\ cpc = "unique"
    /\ ran' = Append(ran, "key_length")
    /\ IF \E j \in 1..Len(cdf.rows) : Len(cdf.rows[j]["GEOID_BG"]) # KeyLen
       THEN fail(<<>>) ELSE GoOn("keys", <<"[OK]">>)
    /\ UNCHANGED <<CHECK_CSV, gpd, SPATIAL, cdf, metricsVars, fetchVars, joinVars,
                   keyVars>>

\* Lines 66-80: one [INFO] line per rate field, then the range test.
RateRange ==
    /\ cpc = "keys"
    /\ cdf' = WithNumericRates(cdf)
    /\ ran' = Append(ran, "rates")
    /\ LET info == [k \in 1..Len(rate_fields) |-> "[INFO]"]
       IN  IF BadRates(WithNumericRates(cdf))
           THEN fail(info) ELSE GoOn("rates", info \o <<"[OK]">>)
    /\ UNCHANGED <<CHECK_CSV, gpd, SPATIAL, metricsVars, fetchVars, joinVars,
                   keyVars>>

\* Lines 82-127: without geopandas or without a readable spatial file the
\* overlap check is skipped and the script is done; otherwise the overlap of
\* the keys decides.  The script ends with exit code 0.
Geometry ==
    /\ cpc = "rates"
    /\ cpc' = "exited"
    /\ IF ~gpd
       THEN /\ printed' = printed \o <<"[WARN]", "[READY]">>
            /\ cexit' = 0
            /\ UNCHANGED ran
       ELSE IF ~geom_found
       THEN /\ printed' = printed \o ReadWarnings \o <<"[WARN]", "[READY]">>
            /\ cexit' = 0
            /\ UNCHANGED ran
       ELSE /\ ran' = Append(ran, "geometry")
            /\ IF SPATIAL.keycol = "none" \/ common(cdf) = {}
               THEN /\ printed' = printed \o <<"[FAIL]">>
                    /\ cexit' = 1
               ELSE /\ printed' = printed \o <<"[OK]", "[READY]">>
                    /\ cexit' = 0
    /\ UNCHANGED <<CHECK_CSV, gpd, SPATIAL, cdf, metricsVars, fetchVars, joinVars,
                   keyVars>>

NextCheck ==
    \/ CsvExists
    \/ RequiredColumns
    \/ Duplicates
    \/ KeyLength
    \/ RateRange
    \/ Geometry

\* ----------------------------------------------------------------- inputs
\* The key cells of the file: two block groups, a long GEOID, a short code,
\* a signed number, an empty string and the text of a missing cell ("nan").
KeyInputs ==
    {BGKey(1), BGKey(2), LongKey(1), <<7, 5, 0, 1>>, <<12, 5>>, <<>>,
     <<10, 10, 10>>}

RateVals ==
    {NaN, Text, Inf, Num(-2, 100), RateLo, Int2F(0), RateHi, Num(10002, 100)}

\* The table with the columns cols whose row j has the key keys[j] and the
\* value vals[j] in the rate column f.
CheckTable(cols, keys, f, vals) ==
    [cols |-> cols,
     rows |-> [j \in 1..Len(keys) |->
                 [c \in cols |->
                    CASE c = "GEOID_BG" -> keys[j]
                      [] c = "TRACT"    -> TractCode(1)
                      [] c = "BG"       -> <<j>>
                      [] c = f          -> vals[j]
                      [] c \in AllRates -> Int2F(50)
                      [] OTHER          -> Int2F(7)]]]

\* The file with m rows that pass every check.
StdCsv(m) ==
    [state |-> "ok",
     cols  |-> need_cols_core \cup optional_id_cols,
     rows  |-> CheckTable(need_cols_core \cup optional_id_cols,
                          [j \in 1..m |-> BGKey(j)], "vac_rate",
                          [j \in 1..m |-> Int2F(50)]).rows]

\* The geometry layer of the block groups 1..MaxRows, read with its layer.
StdSpatial ==
    [gpkg |-> "layer", geojson |-> "missing", keycol |-> "GEOID_BG",
     keys |-> {BGKey(j) : j \in 1..MaxRows}]

DroppedCols ==
    {{"GEOID_BG"}, {"pop"}, {"u_20plus_pct"}, {"TRACT"}, {"BG"}, {"TRACT", "BG"}}

\* The file as the check can find it: missing or unreadable; without some
\* columns; with any keys; with any values in one rate column.
CsvInputs ==
    {[state |-> s, cols |-> StdCsv(1).cols, rows |-> StdCsv(1).rows] :
        s \in {"missing", "unreadable"}}
    \cup {[state |-> "ok", cols |-> StdCsv(m).cols \ drop,
           rows  |-> CheckTable(StdCsv(m).cols \ drop, [j \in 1..m |-> BGKey(j)],
                                "vac_rate", [j \in 1..m |-> Int2F(50)]).rows] :
            m \in 0..MaxRows, drop \in DroppedCols}
    \cup UNION {{[state |-> "ok", cols |-> StdCsv(m).cols,
                  rows  |-> CheckTable(StdCsv(m).cols, keys, "vac_rate",
                                       [j \in 1..m |-> Int2F(50)]).rows] :
                    keys \in [1..m -> KeyInputs]} : m \in 1..MaxRows}
    \cup UNION {{[state |-> "ok", cols |-> StdCsv(m).cols,
                  rows  |-> CheckTable(StdCsv(m).cols, [j \in 1..m |-> BGKey(j)],
                                       rate_fields[k], vals).rows] :
                    k \in 1..Len(rate_fields), vals \in [1..m -> RateVals]} :
                  m \in 1..MaxRows}

\* The spatial files: the GeoPackage read with its layer, as a single layer,
\* unreadable or missing; the GeoJSON fallback; the key column and the keys.
SpatialInputs ==
    {[gpkg |-> a, geojson |-> b, keycol |-> kc,
      keys |-> {IF long THEN LongKey(i) ELSE BGKey(i) : i \in K}] :
        a \in {"layer", "single", "unreadable", "missing"},
        b \in {"ok", "unreadable", "missing"},
        kc \in {"GEOID_BG", "GEOID", "none"},
        long \in BOOLEAN,
        K \in SUBSET (1..(MaxRows + 1))}

InitCheck ==
    /\ cpc = "start"
    /\ \/ /\ CHECK_CSV \in CsvInputs
          /\ gpd = TRUE
          /\ SPATIAL = StdSpatial
       \/ /\ CHECK_CSV = StdCsv(MaxRows)
          /\ gpd \in BOOLEAN
          /\ SPATIAL \in SpatialInputs
    /\ cdf = NoTable
    /\ ran = <<>>
    /\ printed = <<>>
    /\ cexit = NoExit
    /\ MetricsIdle
    /\ FetchIdle
    /\ JoinIdle
    /\ KeyIdle

SpecCheck == InitCheck /\ [][NextCheck]_vars

\* ------------------------------------------------------------- properties
\* The order of the checks.
CheckOrder ==
    <<"csv_exists", "columns", "duplicates", "key_length", "rates", "geometry">>

Printed(tag) == \E k \in 1..Len(printed) : printed[k] = tag

\* The keys of the file after the normalization of line 47.
FileKeys == [j \in 1..Len(CHECK_CSV.rows) |->
                NormalizeKey(CHECK_CSV.rows[j]["GEOID_BG"])]

\* A rate is acceptable: missing (an empty cell or text that is no number)
\* or a number within [-0.01, 100.01].
Acceptable(v) ==
    \/ IsNaN(v)
    \/ v.k = "text"
    \/ (IsNum(v) /\ FLe(RateLo, v) /\ FLe(v, RateHi))

\* Check c fails on the input files.
Failed(c) ==
    CASE c = "csv_exists" -> CHECK_CSV.state = "missing"
      [] c = "columns"    -> need_cols_core \ CHECK_CSV.cols # {}
      [] c = "duplicates" ->
            \E i, j \in 1..Len(FileKeys) : i # j /\ FileKeys[i] = FileKeys[j]
      [] c = "key_length" -> \E j \in 1..Len(FileKeys) : Len(FileKeys[j]) # 12
      [] c = "rates"      ->
            \E j \in 1..Len(CHECK_CSV.rows), k \in 1..Len(rate_fields) :
                ~Acceptable(CHECK_CSV.rows[j][rate_fields[k]])
      [] c = "geometry"   ->
            \/ SPATIAL.keycol = "none"
            \/ ~\E j \in 1..Len(FileKeys) :
                  \E g \in SPATIAL.keys :
                     FileKeys[j] = (IF SPATIAL.keycol = "GEOID"
                                    THEN NormalizeKey(g) ELSE g)

\* No geometry can be read: geopandas is not installed, or no spatial file
\* is there or readable.
GeometryUnavailable ==
    \/ ~gpd
    \/ SPATIAL.gpkg = "unreadable"
    \/ (SPATIAL.gpkg = "missing" /\ SPATIAL.geojson # "ok")

\* C21: the checks run in the fixed order; a check that fails on the inputs
\* is the last one run, and the run then has printed [FAIL] as its last line
\* and exited with code 1; [FAIL] is printed for a failed check only; [READY]
\* is printed only when the five CSV checks have run, no check that has run
\* has failed and nothing failed was printed, with exit code 0; and a run
\* that has passed the CSV checks and cannot read a geometry ends with
\* [READY] and exit code 0 without the overlap check.
C21_ReadyOnlyIfNoCheckFailed ==
    /\ Len(ran) <= Len(CheckOrder)
    /\ \A k \in 1..Len(ran) : ran[k] = CheckOrder[k]
    /\ \A k \in 1..Len(ran) :
          Failed(ran[k]) =>
              /\ k = Len(ran)
              /\ cexit = 1
              /\ cpc = "exited"
              /\ printed[Len(printed)] = "[FAIL]"
    /\ Printed("[FAIL]") => (ran # <<>> /\ Failed(ran[Len(ran)]))
    /\ Printed("[READY]") =>
          /\ ~Printed("[FAIL]")
          /\ Len(ran) >= 5
          /\ \A k \in 1..Len(CheckOrder) :
                (k <= 5 \/ k <= Len(ran)) => ~Failed(CheckOrder[k])
          /\ cexit = 0
    /\ (cpc = "exited" /\ GeometryUnavailable
          /\ CHECK_CSV.state = "ok"
          /\ \A k \in 1..5 : ~Failed(CheckOrder[k])) =>
          /\ Printed("[READY]")
          /\ cexit = 0
          /\ Len(ran) = 5

\* The range check has failed after four passed checks, and the run is over.
C21_Witness ==
    /\ cpc = "exited"
    /\ Len(ran) = 5
    /\ Failed("rates")
    /\ Printed("[FAIL]")
    /\ cexit = 1

\* [READY] after the overlap check has passed.
ReadyAfterOverlap == Printed("[READY]") /\ Len(ran) = 6

\* [READY] with geopandas missing; with an unreadable spatial file.
ReadyWithoutReader == Printed("[READY]") /\ ~gpd
ReadyUnreadableFile == Printed("[READY]") /\ gpd /\ SPATIAL.gpkg = "unreadable"

\* The overlap check has failed.
OverlapFailed == Printed("[FAIL]") /\ Len(ran) = 6 /\ SPATIAL.keycol # "none"

\* =============================================================== join key
\* The scripts that normalize the join key, in the order of the pipeline.
Pipeline == <<"checkinputs", "computemetrics", "aggregatetobg">>

\* The next script of the pipeline normalizes the cell:
\* .astype(str).str[-12:].str.zfill(12).
NormalizeJoinKey ==
    /\ kbuild # "none"
    /\ Len(kpasses) < Len(Pipeline)
    /\ kpasses' = Append(kpasses, Pipeline[Len(kpasses) + 1])
    /\ kvals' = Append(kvals,
                       NormalizeWith(kbuild, IF kvals = <<>> THEN kraw
                                             ELSE kvals[Len(kvals)]))
    /\ UNCHANGED <<kbuild, kraw, metricsVars, fetchVars, joinVars, checkVars>>

NextKey ==
    \/ NormalizeJoinKey
    \/ NextCheck

\* ----------------------------------------------------------------- inputs
MaxAffix == 2

\* A digit 0, another digit, a letter, "." and a sign.
Alphabet == {0, 7, 10, 11, 12}

RECURSIVE Strings(_)
\* The strings of at most n characters.
Strings(n) ==
    IF n = 0 THEN {<<>>}
    ELSE Strings(n - 1)
         \cup {<<c>> \o s : c \in Alphabet, s \in {x \in Strings(n - 1) : Len(x) = n - 1}}

\* The texts of a cell: any string of at most MaxAffix characters, followed
\* by up to 12 zeros and by nothing, a digit or ".0"; their lengths go from
\* 0 to beyond 12.
KeyTexts ==
    {pre \o PadLeft(<<>>, n) \o suf :
        pre \in Strings(MaxAffix), n \in 0..KeyLen,
        suf \in {<<>>, <<1>>, <<11, 0>>}}

InitKey ==
    /\ kbuild \in {"pad_left", "str.zfill"}
    /\ kraw \in KeyTexts
    /\ kpasses = <<>>
    /\ kvals = <<>>
    /\ MetricsIdle
    /\ FetchIdle
    /\ JoinIdle
    /\ CheckIdle

\* A cell through the pipeline, or a run of the input check.
SpecKey == (InitKey \/ InitCheck) /\ [][NextKey]_vars

\* ------------------------------------------------------------- properties
\* C23: the normalization of the join key gives a string of exactly 12
\* characters whatever the text of the cell, and a key that has been
\* normalized is not changed by the normalization of a later script; the
\* length check of checkinputs, which follows the normalization, never
\* fails.
C23_KeyNormalized ==
    /\ \A i \in 1..Len(kvals) : Len(kvals[i]) = 12 /\ kvals[i] = kvals[1]
    /\ (ran # <<>> /\ ran[Len(ran)] = "key_length") => ~Printed("[FAIL]")

\* A text of more than 12 characters has gone through the three scripts.
C23_Witness ==
    /\ Len(kraw) > 12
    /\ Len(kvals) = 3
    /\ kvals[1] # kraw

\* A short text with a leading sign has gone through the three scripts, under
\* either build; the length check of checkinputs has run on a short key.
SignedKeyNormalized(build) ==
    /\ kbuild = build
    /\ kraw # <<>> /\ kraw[1] = 12 /\ Len(kraw) < 12
    /\ Len(kvals) = 3

SignedKeyPadLeft == SignedKeyNormalized("pad_left")
SignedKeyStrZfill == SignedKeyNormalized("str.zfill")

LengthCheckedShortKey ==
    /\ Len(ran) >= 4
    /\ \E j \in 1..Len(CHECK_CSV.rows) : Len(CHECK_CSV.rows[j]["GEOID_BG"]) < 12

\* ------------------------------------------------- one row per block group
\* The GEOID_BG of row i of the layer as the run keys it (lines 70-75).
KeyOfPolygon(i) ==
    IF BG_GPKG.keycol = "GEOID" THEN NormalizeKey(BG_GPKG.rows[i].key)
    ELSE BG_GPKG.rows[i].key

\* C22: bg_metrics.csv, once written, has exactly one row for each polygon of
\* the input layer, in the order of the layer, and row i carries the
\* GEOID_BG of polygon i: no polygon is dropped for want of nodes or edges
\* and the merges with the node and edge summaries add or repeat no row.
C22_OneRowPerPolygon ==
    OUT_CSV.written =>
        /\ Len(OUT_CSV.rows) = Len(BG_GPKG.rows)
        /\ \A i \in 1..Len(OUT_CSV.rows) :
               OUT_CSV.rows[i].GEOID_BG = KeyOfPolygon(i)

\* A file is written for a layer of two polygons, one of which has neither a
\* node nor an edge while the other has both.
C22_Witness ==
    /\ OUT_CSV.written
    /\ Len(BG_GPKG.rows) = 2
    /\ \E i, j \in 1..2 :
          /\ IsNaN(OUT_CSV.rows[i].nodes_in_bg)
          /\ IsNaN(OUT_CSV.rows[i].edges_km)
          /\ IsNum(OUT_CSV.rows[j].nodes_in_bg)
          /\ IsNum(OUT_CSV.rows[j].edges_km)

\* A file is written for two polygons with the same GEOID_BG, both of which
\* match the node and the edge summary.
RepeatedKeyWritten ==
    /\ OUT_CSV.written
    /\ Len(OUT_CSV.rows) = 2
    /\ OUT_CSV.rows[1].GEOID_BG = OUT_CSV.rows[2].GEOID_BG
    /\ IsNum(OUT_CSV.rows[1].nodes_in_bg)
    /\ IsNum(OUT_CSV.rows[1].edges_km)

====
